---------------------------- MODULE Spec2Model ----------------------------
(***************************************************************************)
(* A model of the bank-match pipeline (quanttide/bank-match):              *)
(*   step1_aggregate.py      candidate filter                              *)
(*   step2b_query_gen.py     name normalizer (query builder, resumable run)*)
(*   step3_fdic_matching.py  registry matcher (scoring, cascade, run)      *)
(* Strings are sequences of one-character strings, so that the lexical     *)
(* operations of the code (lower, strip, re.sub, re.search, endswith, ...) *)
(* are computed character by character.                                    *)
(***************************************************************************)
EXTENDS Integers, Sequences, FiniteSets, TLC

VARIABLES
    fpc,        \* candidate filter: "row" (a row is pending) or "done"
    rec,        \* candidate filter: the DealScan row under test
    isBank,     \* candidate filter: is_potential_bank_entity(rec)
    isUS,       \* candidate filter: is_us_company(rec)
    kept,       \* candidate filter: the row is in df[mask_bank & mask_us]
    qpc,        \* query builders: "name" (a name is pending) or "done"
    qname,      \* query builders: the name handed to the builders
    qmain,      \* query builders: finalize_fdic_query(qname)
    qstrict,    \* query builders: construct_fallback_query(qname, 'strict')
    qloose,     \* query builders: construct_fallback_query(qname, 'loose')
    mpc,        \* process_row: "stage1", "stage2", "stage3", "emit" or "done"
    row,        \* process_row: the normalized lender row
    candidates, \* process_row: the local variable candidates
    candidates_pred,  \* process_row: the local variable candidates_pred
    matches,    \* process_row: the local variable matches
    issued,     \* the requests sent to the registry, in order
    stage_log,  \* history: the cascade stages process_row has executed
    result,     \* process_row: the returned row (None until it returns)
    run_stage,  \* run: "normalizer" (step2b run) or "matcher" (step3 run)
    rpc,        \* run: "start", "collect" (as_completed loop), "done" or "failed"
    run_env,    \* run: the input file is there, the credential is configured
    input_names,      \* run: the names of the input file, in file order
    output_file,      \* run: the rows of the checkpoint file, in file order
    output_at_start,  \* history: the checkpoint file when the run started
    submitted,  \* run: what executor.submit was given (batches, or rows)
    futures,    \* run: the submitted items whose worker has not completed
    results_buffer,   \* run: the local variable results_buffer
    requested,  \* history: the names handed to the collaborator or registry
    run_no,     \* run: "first", or "next" when the stage is run once more
    results,    \* run: what the completed workers returned, not yet taken in
    header_at,  \* run: the row counts of the file at which a header line stands
    returned,   \* history: the rows the loop got from the workers, in order
    dispatch_log,     \* history: the work items the workers have executed
    ipc,        \* clean_id: "value" (a value is pending) or "done"
    id_val,     \* clean_id: the identifier as the source file holds it
    id_clean,   \* clean_id: clean_id(id_val)
    id_again,   \* clean_id: clean_id(clean_id(id_val))
    gpc,        \* merger: "load", "file" (a call-report file is pending), "done", "failed"
    map_exists, \* merger: the master mapping file is there
    master_map, \* merger: the rows of the master mapping file
    call_files, \* merger: the call-report files glob found, in its order
    ds_files,   \* merger: per year, the loan-record file glob finds first
    gnext,      \* merger: the place in call_files of the next file of the loop
    outputs,    \* merger: per year, the rows of merged_panel_<year>.csv, where it exists
    ds_file,    \* merger: the loan-record table read for the last file merged (found, rows)
    call_file,  \* merger: the last call-report file merged (its name, columns, rows)
    df_map,     \* merger: what load_master_map returned
    df_lookup,  \* merger: the reverse lookup table
    df_output,  \* merger: the rows written to merged_panel_<year>.csv
    spc,        \* scoring loop: "score", "done"
    sc_cands,   \* scoring loop: per candidate, the three measures of lines 149-159
    sc_scores,  \* scoring loop: the final_score of the candidates scored so far
    sc_top,     \* select_top_matches: the list returned, empty until then
    ppc,        \* parse_json: "raw" (a response is pending) or "done"
    raw,        \* parse_json: the text of the collaborator's response, in pieces
    parsed      \* parse_json: what the call returned, as process_batch reads it

filterVars == <<fpc, rec, isBank, isUS, kept>>
queryVars == <<qpc, qname, qmain, qstrict, qloose>>
matchVars == <<mpc, row, candidates, candidates_pred, matches, issued, stage_log, result>>
runVars == <<run_stage, rpc, input_names, output_file, output_at_start, submitted, futures,
             results_buffer, requested, run_no, results, header_at, returned,
             dispatch_log, run_env>>
idVars == <<ipc, id_val, id_clean, id_again>>
mergeVars == <<gpc, map_exists, master_map, call_files, ds_files, gnext, outputs,
               ds_file, call_file, df_map, df_lookup, df_output>>
scoreVars == <<spc, sc_cands, sc_scores, sc_top>>
parseVars == <<ppc, raw, parsed>>
lateVars == <<idVars, mergeVars, scoreVars, parseVars>>
pipelineVars == <<filterVars, queryVars, matchVars, runVars>>
vars == <<pipelineVars, lateVars>>

(***************************************************************************)
(* Characters and strings                                                  *)
(***************************************************************************)
Lowers == <<"a","b","c","d","e","f","g","h","i","j","k","l","m",
            "n","o","p","q","r","s","t","u","v","w","x","y","z">>
Uppers == <<"A","B","C","D","E","F","G","H","I","J","K","L","M",
            "N","O","P","Q","R","S","T","U","V","W","X","Y","Z">>
DigitChars == {"0","1","2","3","4","5","6","7","8","9"}

Range(s) == {s[i] : i \in DOMAIN s}

IsLower(c) == c \in Range(Lowers)
IsUpper(c) == c \in Range(Uppers)
IsDigit(c) == c \in DigitChars
\* \s of the re module, restricted to the white space the model writes
IsSpace(c) == c \in {" ", "\t", "\n"}
\* \w of the re module: letters, digits and the underscore
IsWordChar(c) == IsLower(c) \/ IsUpper(c) \/ IsDigit(c) \/ c = "_"

LowerChar(c) == IF IsUpper(c) THEN Lowers[CHOOSE i \in DOMAIN Uppers : Uppers[i] = c] ELSE c
UpperChar(c) == IF IsLower(c) THEN Uppers[CHOOSE i \in DOMAIN Lowers : Lowers[i] = c] ELSE c

\* str.lower(), str.upper()
lower(s) == [i \in 1..Len(s) |-> LowerChar(s[i])]
upper(s) == [i \in 1..Len(s) |-> UpperChar(s[i])]

RECURSIVE lstrip(_)
lstrip(s) == IF s # <<>> /\ IsSpace(Head(s)) THEN lstrip(Tail(s)) ELSE s

RECURSIVE rstrip(_)
rstrip(s) == IF s # <<>> /\ IsSpace(s[Len(s)]) THEN rstrip(SubSeq(s, 1, Len(s) - 1)) ELSE s

\* str.strip()
strip(s) == rstrip(lstrip(s))

\* sub in s
Contains(s, sub) ==
    \E i \in 0..(Len(s) - Len(sub)) : SubSeq(s, i + 1, i + Len(sub)) = sub

\* s.endswith(suf), s.startswith(pre)
endswith(s, suf) ==
    Len(s) >= Len(suf) /\ SubSeq(s, Len(s) - Len(suf) + 1, Len(s)) = suf
startswith(s, pre) ==
    Len(s) >= Len(pre) /\ SubSeq(s, 1, Len(pre)) = pre

\* a number held in a field that may also hold None
Num(n) == <<"num", n>>

\* a missing value: pandas NaN and Python None are not strings
NaN == <<"NaN">>
None == <<"None">>
\* pd.isna
isna(v) == v = NaN \/ v = None
\* str(v)
str(v) == IF v = NaN THEN <<"n","a","n">>
          ELSE IF v = None THEN <<"N","o","n","e">>
          ELSE v

(***************************************************************************)
(* step1_aggregate.py: the candidate filter                                *)
(***************************************************************************)
whitelist ==
    { <<"b","a","n","k">>, <<"b","a","n","c">>, <<"t","r","u","s","t">>,
      <<"s","a","v","i","n","g","s">>, <<"l","o","a","n">>,
      <<"c","r","e","d","i","t">>, <<"u","n","i","o","n">>,
      <<"c","a","p","i","t","a","l">>, <<"f","i","n","a","n","c","i","a","l">>,
      <<"f","i","n","a","n","c","i","n","g">>, <<"f","u","n","d","i","n","g">>,
      <<"l","e","n","d","i","n","g">>, <<"m","o","r","t","g","a","g","e">> }

exclude_endings ==
    { <<"f","u","n","d">>, <<"f","u","n","d","s">>,
      <<"a","d","v","i","s","o","r","s">>,
      <<"m","a","n","a","g","e","m","e","n","t">>,
      <<"a","s","s","e","t"," ","m","a","n","a","g","e","m","e","n","t">>,
      <<"c","l","o">>, <<"c","d","o">>, <<"e","t","f">>,
      <<"e","q","u","i","t","y">>, <<"v","e","n","t","u","r","e">>,
      <<"v","e","n","t","u","r","e","s">>,
      <<"i","n","s","u","r","a","n","c","e">>,
      <<"a","s","s","u","r","a","n","c","e">> }

\* the name's tail is " " or "." followed by an excluded ending
HasExcludedEnding(name_str) ==
    \E ending \in exclude_endings :
        endswith(name_str, <<" ">> \o ending) \/ endswith(name_str, <<".">> \o ending)

is_potential_bank_entity(record) ==
    IF isna(record.Lender_Name) THEN FALSE
    ELSE LET name_str == lower(strip(str(record.Lender_Name))) IN
         IF \E kw \in whitelist : Contains(name_str, kw) THEN TRUE
         ELSE IF ~isna(record.Lender_Institution_Type)
                 /\ Contains(lower(str(record.Lender_Institution_Type)), <<"b","a","n","k">>)
              THEN TRUE
         ELSE IF HasExcludedEnding(name_str) THEN FALSE
         ELSE TRUE

\* the alternatives of us_regex, each between ^ and $ ("\." is a literal period)
us_regex ==
    { <<"u","n","i","t","e","d"," ","s","t","a","t","e","s">>,
      <<"u","s","a">>,
      <<"u","s">>,
      <<"u","n","i","t","e","d"," ","s","t","a","t","e","s"," ","o","f"," ",
        "a","m","e","r","i","c","a">>,
      <<"u",".","s",".","a">>,
      <<"u",".","s">> }

\* re.match of ^alt$ : alt at position 0, then the end of the string, or a
\* newline that ends the string
MatchAnchoredPrefix(alts, s) == \E alt \in alts : startswith(s, alt)

MatchAnchored(alts, s) ==
    \E alt \in alts :
        /\ startswith(s, alt)
        /\ \/ Len(s) = Len(alt)
           \/ Len(s) = Len(alt) + 1 /\ s[Len(s)] = "\n"

\* re.sub(r"[^\w\s]", "", country).strip()
country_clean(country) ==
    strip(SelectSeq(country, LAMBDA c : IsWordChar(c) \/ IsSpace(c)))

is_us_company(record) ==
    LET country == lower(str(record.Lender_Operating_Country))
        inst_type == str(record.Lender_Institution_Type)
    IN  MatchAnchored(us_regex, country_clean(country))
        \/ Contains(inst_type, <<"U","S"," ","B","a","n","k">>)

\* one row of the loop body of run(): both masks, and the row selection
FilterRow ==
    /\ fpc = "row"
    /\ isBank' = is_potential_bank_entity(rec)
    /\ isUS' = is_us_company(rec)
    /\ kept' = (is_potential_bank_entity(rec) /\ is_us_company(rec))
    /\ fpc' = "done"
    /\ UNCHANGED <<rec, queryVars, matchVars, runVars, lateVars>>

FilterIdle ==
    /\ fpc = "done"
    /\ rec = [Lender_Name |-> NaN, Lender_Institution_Type |-> NaN,
              Lender_Operating_Country |-> NaN]
    /\ isBank = FALSE
    /\ isUS = FALSE
    /\ kept = FALSE

(***************************************************************************)
(* Regular-expression helpers shared by the query builders and the matcher *)
(***************************************************************************)
\* \b between s[k] and s[k+1] (k = 0: the start, k = Len(s): the end)
WordBoundaryAt(s, k) ==
    LET before == k >= 1 /\ IsWordChar(s[k])
        after == k + 1 <= Len(s) /\ IsWordChar(s[k + 1])
    IN  before # after

\* the pattern \bw\b matches s at position i
WordMatchAt(s, i, w) ==
    /\ i + Len(w) - 1 <= Len(s)
    /\ SubSeq(s, i, i + Len(w) - 1) = w
    /\ WordBoundaryAt(s, i - 1)
    /\ WordBoundaryAt(s, i + Len(w) - 1)

\* re.sub(r'\bw\b', '', s): the leftmost non-overlapping matches are removed
ReSubWord(s, w) ==
    LET RECURSIVE from(_)
        from(i) ==
            IF i > Len(s) THEN <<>>
            ELSE IF WordMatchAt(s, i, w) THEN from(i + Len(w))
            ELSE <<s[i]>> \o from(i + 1)
    IN  from(1)

\* the patterns of a list applied one after the other
RECURSIVE ReSubWords(_, _)
ReSubWords(s, pats) ==
    IF pats = <<>> THEN s ELSE ReSubWords(ReSubWord(s, Head(pats)), Tail(pats))

\* re.sub(r'[^A-Z0-9\s]', '', s)
KeepUpperAlnumSpace(s) ==
    SelectSeq(s, LAMBDA c : IsUpper(c) \/ IsDigit(c) \/ IsSpace(c))

\* re.sub(r'\s+', ' ', s)
RECURSIVE CollapseSpaces(_)
CollapseSpaces(s) ==
    IF s = <<>> THEN <<>>
    ELSE IF IsSpace(Head(s)) THEN <<" ">> \o CollapseSpaces(lstrip(s))
    ELSE <<Head(s)>> \o CollapseSpaces(Tail(s))

\* clean.replace(' ', r'\ ')
RECURSIVE EscapeSpaces(_)
EscapeSpaces(s) ==
    IF s = <<>> THEN <<>>
    ELSE IF Head(s) = " " THEN <<"\\", " ">> \o EscapeSpaces(Tail(s))
    ELSE <<Head(s)>> \o EscapeSpaces(Tail(s))

\* f"NAME:*{escaped}*"
NameQuery(escaped) == <<"N","A","M","E",":","*">> \o escaped \o <<"*">>

(***************************************************************************)
(* step2b_query_gen.py: finalize_fdic_query                                *)
(***************************************************************************)
finalize_fdic_query(core_name) ==
    IF isna(core_name) \/ core_name = <<>> \/ Len(str(core_name)) < 2 THEN None
    ELSE LET clean == CollapseSpaces(KeepUpperAlnumSpace(strip(upper(str(core_name))))) IN
         IF clean = <<>> THEN None
         ELSE NameQuery(EscapeSpaces(clean))

(***************************************************************************)
(* step3_fdic_matching.py: construct_fallback_query                        *)
(***************************************************************************)
\* the patterns of level 'loose'; with re.IGNORECASE on the upper-cased name
\* they match as their upper-case spelling
loose_patterns ==
    << <<"C","H","I","C","A","G","O">>, <<"N","E","W"," ","Y","O","R","K">>,
       <<"B","R","A","N","C","H">>, <<"I","N","C">>, <<"C","O","R","P">> >>

construct_fallback_query(raw_name, level) ==
    IF isna(raw_name) THEN None
    ELSE LET up == upper(str(raw_name))
             loosened == IF level = "loose" THEN ReSubWords(up, loose_patterns) ELSE up
             clean == CollapseSpaces(strip(KeepUpperAlnumSpace(loosened)))
         IN  IF Len(clean) < 2 THEN None
             ELSE NameQuery(EscapeSpaces(clean))

(***************************************************************************)
(* step3_fdic_matching.py: name cleaning and the similarity measures       *)
(***************************************************************************)
remove_patterns ==
    << <<"N","A","T","I","O","N","A","L"," ","A","S","S","O","C","I","A","T","I","O","N">>,
       <<"N",".","A",".">>, <<"N",".","A">>, <<"N","A">>,
       <<"T","H","E">>, <<"I","N","C">>, <<"C","O","R","P">>, <<"L","L","C">>,
       <<"L","T","D">>, <<"C","O">>,
       <<"G","R","O","U","P">>, <<"H","O","L","D","I","N","G","S">>,
       <<"B","A","N","C","O","R","P">>, <<"F","I","N","A","N","C","I","A","L">>,
       <<"B","R","A","N","C","H">>, <<"A","G","E","N","C","Y">>,
       <<"N","E","W"," ","Y","O","R","K">>, <<"C","H","I","C","A","G","O">>,
       <<"L","O","N","D","O","N">>, <<"D","E","L","A","W","A","R","E">> >>

aggressive_clean_name(name) ==
    IF isna(name) THEN <<>>
    ELSE strip(CollapseSpaces(KeepUpperAlnumSpace(
             ReSubWords(upper(str(name)), remove_patterns))))

\* str.split(): the maximal runs of characters that are not white space
RECURSIVE split(_)
split(s) ==
    LET t == lstrip(s) IN
    IF t = <<>> THEN <<>>
    ELSE LET n == IF \E i \in DOMAIN t : IsSpace(t[i])
                  THEN (CHOOSE i \in DOMAIN t :
                            IsSpace(t[i]) /\ \A j \in 1..(i - 1) : ~IsSpace(t[j])) - 1
                  ELSE Len(t)
         IN  <<SubSeq(t, 1, n)>> \o split(SubSeq(t, n + 1, Len(t)))

\* A score is a fraction <<numerator, denominator>> with a positive
\* denominator; the float the code holds is the nearest double, and the
\* comparisons below decide as the doubles do for the lengths modelled.
RatGe(a, b) == a[1] * b[2] >= b[1] * a[2]
RatGt(a, b) == a[1] * b[2] > b[1] * a[2]
RatEq(a, b) == a[1] * b[2] = b[1] * a[2]
RatLt(a, b) == a[1] * b[2] < b[1] * a[2]

get_token_set_score(a, b) ==
    LET set_a == Range(split(aggressive_clean_name(a)))
        set_b == Range(split(aggressive_clean_name(b)))
    IN  IF set_a = {} \/ set_b = {} THEN <<0, 1>>
        ELSE <<Cardinality(set_a \cap set_b), Cardinality(set_a \cup set_b)>>

\* difflib: the length of the longest common prefix of a[i..ahi] and b[j..bhi]
RECURSIVE CommonPrefixLen(_, _, _, _, _, _)
CommonPrefixLen(a, b, i, ahi, j, bhi) ==
    IF i <= ahi /\ j <= bhi /\ a[i] = b[j]
    THEN 1 + CommonPrefixLen(a, b, i + 1, ahi, j + 1, bhi)
    ELSE 0

\* difflib SequenceMatcher.find_longest_match(alo, ahi, blo, bhi) without junk:
\* of the longest matching blocks the one that starts earliest in a, and of
\* those the one that starts earliest in b; <<i, j, k>>, k = 0 when none
find_longest_match(a, b, alo, ahi, blo, bhi) ==
    LET blocks == { <<i, j, CommonPrefixLen(a, b, i, ahi, j, bhi)>> :
                        i \in alo..ahi, j \in blo..bhi }
        best == { x \in blocks : x[3] > 0 /\ \A y \in blocks : y[3] <= x[3] }
    IN  IF best = {} THEN <<alo, blo, 0>>
        ELSE CHOOSE x \in best :
                \A y \in best : x[1] < y[1] \/ (x[1] = y[1] /\ x[2] <= y[2])

\* difflib SequenceMatcher.get_matching_blocks: the total size of the blocks
RECURSIVE matching_size(_, _, _, _, _, _)
matching_size(a, b, alo, ahi, blo, bhi) ==
    IF alo > ahi \/ blo > bhi THEN 0
    ELSE LET m == find_longest_match(a, b, alo, ahi, blo, bhi) IN
         IF m[3] = 0 THEN 0
         ELSE m[3] + matching_size(a, b, alo, m[1] - 1, blo, m[2] - 1)
                   + matching_size(a, b, m[1] + m[3], ahi, m[2] + m[3], bhi)

\* difflib SequenceMatcher(None, a, b).ratio()
ratio(a, b) ==
    IF Len(a) + Len(b) = 0 THEN <<1, 1>>
    ELSE <<2 * matching_size(a, b, 1, Len(a), 1, Len(b)), Len(a) + Len(b)>>

\* re.search(r'\b' + re.escape(target_clean), cand_clean)
SearchAtWordStartWhole(target_clean, cand_clean) ==
    \E i \in 1..(Len(cand_clean) + 1) :
        /\ WordBoundaryAt(cand_clean, i - 1)
        /\ i + Len(target_clean) - 1 <= Len(cand_clean)
        /\ SubSeq(cand_clean, i, i + Len(target_clean) - 1) = target_clean
        /\ WordBoundaryAt(cand_clean, i + Len(target_clean) - 1)

SearchAtWordStart(target_clean, cand_clean) ==
    \E i \in 1..(Len(cand_clean) + 1) :
        /\ WordBoundaryAt(cand_clean, i - 1)
        /\ i + Len(target_clean) - 1 <= Len(cand_clean)
        /\ SubSeq(cand_clean, i, i + Len(target_clean) - 1) = target_clean

(***************************************************************************)
(* step3_fdic_matching.py: select_top_matches                              *)
(***************************************************************************)
top_k == 5
ShortTargetLen == 10

\* lines 161-164 with the penalty on the candidates that share tokens
composite_score_penalises_overlap(char_sim, token_sim, is_boundary_safe) ==
    IF ~is_boundary_safe THEN <<0, 1>>
    ELSE IF RatGe(token_sim, <<1, 2>>) THEN <<char_sim[1], 2 * char_sim[2]>>
    ELSE char_sim

\* lines 161-164 with the penalty from a token similarity of one half down
composite_score_from_half(char_sim, token_sim, is_boundary_safe) ==
    IF ~is_boundary_safe THEN <<0, 1>>
    ELSE IF ~RatGt(token_sim, <<1, 2>>) THEN <<char_sim[1], 2 * char_sim[2]>>
    ELSE char_sim

\* lines 161-164: the composite score
composite_score(char_sim, token_sim, is_boundary_safe) ==
    IF ~is_boundary_safe THEN <<0, 1>>
    ELSE IF RatLt(token_sim, <<1, 2>>) THEN <<char_sim[1], 2 * char_sim[2]>>
    ELSE char_sim

\* lines 156-159: the boundary check
is_boundary_safe(target_clean, cand_clean) ==
    ~(Len(target_clean) < ShortTargetLen /\ ~SearchAtWordStart(target_clean, cand_clean))

\* lines 142-164: the score of one candidate name against the target
name_score(target_name_raw, cand_raw) ==
    LET target_clean == aggressive_clean_name(target_name_raw)
        cand_clean == aggressive_clean_name(cand_raw)
    IN  composite_score(ratio(target_clean, cand_clean),
                        get_token_set_score(target_name_raw, cand_raw),
                        is_boundary_safe(target_clean, cand_clean))

(***************************************************************************)
(* The registry's institutions (each certificate number is unique) and the *)
(* normalized lender rows the matcher is run on                            *)
(***************************************************************************)
Institutions ==
    << [NAME |-> <<"A","B"," ","C","D","E">>,
        CERT |-> <<"1","1">>, FED_RSSD |-> <<"1","0","1">>, ASSET |-> Num(10)],
       [NAME |-> <<"A","B"," ","C","D","E"," ","F">>,
        CERT |-> <<"1","2">>, FED_RSSD |-> <<"1","0","2">>, ASSET |-> Num(1000)],
       [NAME |-> <<"A","B"," ","C","D","E"," ","F","G","H">>,
        CERT |-> <<"1","3">>, FED_RSSD |-> <<"1","0","3">>, ASSET |-> Num(5000)],
       [NAME |-> <<"A","b"," ","C","d","e"," ","F","g","h","i","j">>,
        CERT |-> <<"1","4">>, FED_RSSD |-> <<"1","0","4",".","0">>, ASSET |-> Num(20)],
       [NAME |-> <<"A","B"," ","C","D","E"," ","F","G","H"," ","I","J","K">>,
        CERT |-> <<"1","5">>, FED_RSSD |-> None, ASSET |-> Num(9000)],
       [NAME |-> <<"C","D","E"," ","A","B"," ","C","D","E","F">>,
        CERT |-> <<"1","6">>, FED_RSSD |-> <<"1","0","6">>, ASSET |-> Num(7000)],
       [NAME |-> <<"T","H","E"," ","A","B"," ","C","D","E",","," ","N",".","A",".">>,
        CERT |-> <<"1","7">>, FED_RSSD |-> <<"1","0","7">>, ASSET |-> Num(1000)],
       [NAME |-> <<"X","Y"," ","Z"," ","C","O","R","P">>,
        CERT |-> <<"1","8">>, FED_RSSD |-> <<"1","0","8">>, ASSET |-> None] >>

Lenders ==
    { [original |-> <<"a","b"," ","c","d","e"," ","[","N","Y","]">>,
       search_core_name |-> <<"A","b"," ","C","d","e">>,
       predecessor |-> NaN],
      [original |-> <<"A","B","-","C","D","E"," ","I","N","C">>,
       search_core_name |-> <<"A","b"," ","C","d","e"," ","I","n","c">>,
       predecessor |-> <<"X","y"," ","Z">>],
      [original |-> <<"A","b"," ","C","d","e"," ","F","g","h">>,
       search_core_name |-> NaN,
       predecessor |-> <<"A","b"," ","C","d","e">>],
      [original |-> <<"Q">>,
       search_core_name |-> <<"Q">>,
       predecessor |-> <<"X","y"," ","Z"," ","C","o","r","p">>],
      [original |-> <<"X","y"," ","Z">>,
       search_core_name |-> <<"X","y"," ","Z">>,
       predecessor |-> <<"-">>] }

\* the names process_row scores against, and the names it scores
TargetNames ==
    { IF ~isna(r.search_core_name) THEN r.search_core_name ELSE r.original : r \in Lenders }
    \cup { r.predecessor : r \in Lenders }
CandidateNames == { Institutions[i].NAME : i \in DOMAIN Institutions }

\* name_score, computed once for every pair of names of the run
RECURSIVE score_row(_, _)
score_row(t, names) ==
    IF names = {} THEN <<>>
    ELSE LET n == CHOOSE x \in names : TRUE IN
         (n :> name_score(t, n)) @@ score_row(t, names \ {n})

RECURSIVE score_rows(_)
score_rows(targets) ==
    IF targets = {} THEN <<>>
    ELSE LET t == CHOOSE x \in targets : TRUE IN
         (t :> score_row(t, CandidateNames)) @@ score_rows(targets \ {t})

score_table == score_rows(TargetNames)

calc_score(target_name_raw, cand) == score_table[target_name_raw][cand.NAME]

\* float(cand.get('ASSET', 0) or 0)
calc_asset(cand) == IF cand.ASSET = None THEN 0 ELSE cand.ASSET[2]

scored_candidates(target_name_raw, cands) ==
    [i \in DOMAIN cands |->
        [NAME |-> cands[i].NAME, CERT |-> cands[i].CERT,
         FED_RSSD |-> cands[i].FED_RSSD, ASSET |-> cands[i].ASSET,
         calc_score |-> calc_score(target_name_raw, cands[i]),
         calc_asset |-> calc_asset(cands[i])]]

\* line 176, with the admission threshold 0.6 = 3/5
qualified_above(scored) == SelectSeq(scored, LAMBDA c : RatGt(c.calc_score, <<3, 5>>))

\* line 176 with the threshold at one half
qualified_from_half(scored) == SelectSeq(scored, LAMBDA c : RatGe(c.calc_score, <<1, 2>>))

qualified(scored) == SelectSeq(scored, LAMBDA c : RatGe(c.calc_score, <<3, 5>>))

\* sorted(q, key=calc_score, reverse=True): a stable sort, equal keys keep
\* the order they have in q
by_score(q) ==
    LET rank(i) == 1 + Cardinality({ j \in DOMAIN q :
                        \/ RatGt(q[j].calc_score, q[i].calc_score)
                        \/ RatEq(q[j].calc_score, q[i].calc_score) /\ j < i })
    IN  [p \in DOMAIN q |-> q[CHOOSE i \in DOMAIN q : rank(i) = p]]

\* sorted(q, key=calc_asset, reverse=True)
by_asset(q) ==
    LET rank(i) == 1 + Cardinality({ j \in DOMAIN q :
                        \/ q[j].calc_asset > q[i].calc_asset
                        \/ q[j].calc_asset = q[i].calc_asset /\ j < i })
    IN  [p \in DOMAIN q |-> q[CHOOSE i \in DOMAIN q : rank(i) = p]]

\* line 197, with the promotion threshold 0.75 = 3/4
promotes_at_threshold(huge_cand, best_score_cand) ==
    huge_cand.CERT # best_score_cand.CERT /\ RatGe(huge_cand.calc_score, <<3, 4>>)

promotes(huge_cand, best_score_cand) ==
    huge_cand.CERT # best_score_cand.CERT /\ RatGt(huge_cand.calc_score, <<3, 4>>)

\* final_list[:top_k]
take_all(list, k) == list

take(list, k) == SubSeq(list, 1, IF Len(list) < k THEN Len(list) ELSE k)

\* lines 176-205: the qualified candidates, ranked and cut to k
top_of(scored, k) ==
    LET q == qualified(scored) IN
    IF q = <<>> THEN <<>>
    ELSE LET sorted == by_score(q)
             best_score_cand == sorted[1]
             huge_cand == by_asset(q)[1]
             final_list ==
                 IF promotes(huge_cand, best_score_cand)
                 THEN <<huge_cand>> \o
                      SelectSeq(sorted, LAMBDA c : c.CERT # huge_cand.CERT)
                 ELSE sorted
         IN  take(final_list, k)

select_top_matches(target_name_raw, cands, k) ==
    IF cands = <<>> THEN <<>>
    ELSE top_of(scored_candidates(target_name_raw, cands), k)

(***************************************************************************)
(* step3_fdic_matching.py: format_id, search_fdic_api, process_row         *)
(***************************************************************************)
\* float(val) succeeds: digits with at most one period (the numerals the
\* model writes), white space around them allowed
IsNumeral(s) ==
    LET t == strip(s) IN
    /\ \E i \in DOMAIN t : IsDigit(t[i])
    /\ \A i \in DOMAIN t : IsDigit(t[i]) \/ t[i] = "."
    /\ Cardinality({ i \in DOMAIN t : t[i] = "." }) <= 1

RECURSIVE StripLeadingZeros(_)
StripLeadingZeros(d) ==
    IF Len(d) > 1 /\ Head(d) = "0" THEN StripLeadingZeros(Tail(d)) ELSE d

\* str(int(float(val))) of a numeral
IntegerPart(s) ==
    LET t == strip(s)
        n == IF \E i \in DOMAIN t : t[i] = "."
             THEN (CHOOSE i \in DOMAIN t : t[i] = ".") - 1 ELSE Len(t)
    IN  IF n = 0 THEN <<"0">> ELSE StripLeadingZeros(SubSeq(t, 1, n))

format_id(val) ==
    IF isna(val) \/ val = <<>> THEN None
    ELSE IF IsNumeral(val) THEN IntegerPart(val)
    ELSE val

\* round(score, 2) in hundredths; a tie is exact in the double only for a
\* power-of-two denominator (names under 20 characters give no other tie)
\* and rounds to the even neighbour
round2(score) ==
    LET q == (100 * score[1]) \div score[2]
        r == (100 * score[1]) % score[2]
    IN  IF 2 * r < score[2] THEN q
        ELSE IF 2 * r > score[2] THEN q + 1
        ELSE IF q % 2 = 0 THEN q ELSE q + 1

\* search_fdic_api sends a request (line 109 lets the query through)
MinQueryLen == 5
sends_request(query_str) == query_str # None /\ Len(query_str) >= MinQueryLen

\* line 219
target_name(r) ==
    IF ~isna(r.search_core_name) THEN r.search_core_name ELSE r.original

\* lines 227 and 229
needs_loose(m, query, query_loose) ==
    m = <<>> /\ query_loose # None /\ query_loose # query

\* line 234
needs_pred_always(m, ai_pred) == ~isna(ai_pred)

needs_pred(m, ai_pred) == m = <<>> /\ ~isna(ai_pred)

EmptySlot ==
    [RSSD |-> None, CERT |-> None, Name |-> None, SimScore |-> None, Asset |-> None]

\* lines 249-262 (State, City and Status are copied the same way)
FilledSlot(m) ==
    [RSSD |-> format_id(m.FED_RSSD), CERT |-> format_id(m.CERT), Name |-> m.NAME,
     SimScore |-> Num(round2(m.calc_score)), Asset |-> Num(m.calc_asset)]

\* lines 240-268
result_row(original, m, cands) ==
    [Lender_Name_Input |-> original,
     Found |-> Len(m) > 0,
     Raw_Candidates_Count |-> Len(cands),
     Match |-> [i \in 1..5 |-> IF i <= Len(m) THEN FilledSlot(m[i]) ELSE EmptySlot]]

\* what the registry may answer to a query: nothing without a request; any
\* list of institutions (also none: a miss, an error, a timeout) otherwise
registry_answers(query_str, responses) ==
    IF sends_request(query_str) THEN responses ELSE { <<>> }

log_entry(stage, target, query_str, resp, m) ==
    [stage |-> stage, target |-> target, sent |-> sends_request(query_str),
     n_raw |-> Len(resp), n_matches |-> Len(m)]

requests_after(sent_so_far, stage, query_str) ==
    IF sends_request(query_str)
    THEN Append(sent_so_far, [stage |-> stage, query |-> query_str])
    ELSE sent_so_far

\* lines 221-224: the strict search on the core name
Stage1Search(responses) ==
    /\ mpc = "stage1"
    /\ LET target == target_name(row)
           query == construct_fallback_query(target, "strict")
       IN  \E resp \in registry_answers(query, responses) :
             LET m == select_top_matches(target, resp, top_k) IN
             /\ candidates' = resp
             /\ matches' = m
             /\ issued' = requests_after(issued, 1, query)
             /\ stage_log' = Append(stage_log, log_entry(1, target, query, resp, m))
    /\ mpc' = "stage2"
    /\ UNCHANGED <<row, candidates_pred, result, filterVars, queryVars, runVars, lateVars>>

\* lines 226-231: the loose retry on the core name
Stage2Search(responses) ==
    /\ mpc = "stage2"
    /\ LET target == target_name(row)
           query == construct_fallback_query(target, "strict")
           query_loose == construct_fallback_query(target, "loose")
       IN  /\ needs_loose(matches, query, query_loose)
           /\ \E resp \in registry_answers(query_loose, responses) :
                LET m == select_top_matches(target, resp, top_k) IN
                /\ candidates' = resp
                /\ matches' = m
                /\ issued' = requests_after(issued, 2, query_loose)
                /\ stage_log' = Append(stage_log,
                                       log_entry(2, target, query_loose, resp, m))
    /\ mpc' = "stage3"
    /\ UNCHANGED <<row, candidates_pred, result, filterVars, queryVars, runVars, lateVars>>

Stage2Skip ==
    /\ mpc = "stage2"
    /\ LET target == target_name(row) IN
       ~needs_loose(matches, construct_fallback_query(target, "strict"),
                    construct_fallback_query(target, "loose"))
    /\ mpc' = "stage3"
    /\ UNCHANGED <<row, candidates, candidates_pred, matches, issued, stage_log,
                   result, filterVars, queryVars, runVars, lateVars>>

\* lines 233-237: the strict search on the predecessor name
Stage3Search(responses) ==
    /\ mpc = "stage3"
    /\ needs_pred(matches, row.predecessor)
    /\ LET ai_pred == row.predecessor
           query_pred == construct_fallback_query(ai_pred, "strict")
       IN  \E resp \in registry_answers(query_pred, responses) :
             LET m == select_top_matches(ai_pred, resp, top_k) IN
             /\ candidates_pred' = resp
             /\ matches' = m
             /\ issued' = requests_after(issued, 3, query_pred)
             /\ stage_log' = Append(stage_log,
                                    log_entry(3, ai_pred, query_pred, resp, m))
    /\ mpc' = "emit"
    /\ UNCHANGED <<row, candidates, result, filterVars, queryVars, runVars, lateVars>>

Stage3Skip ==
    /\ mpc = "stage3"
    /\ ~needs_pred(matches, row.predecessor)
    /\ mpc' = "emit"
    /\ UNCHANGED <<row, candidates, candidates_pred, matches, issued, stage_log,
                   result, filterVars, queryVars, runVars, lateVars>>

\* lines 239-268: the returned row
EmitResult ==
    /\ mpc = "emit"
    /\ result' = result_row(row.original, matches, candidates)
    /\ mpc' = "done"
    /\ UNCHANGED <<row, candidates, candidates_pred, matches, issued, stage_log,
                   filterVars, queryVars, runVars, lateVars>>

MatchIdle ==
    /\ mpc = "done"
    /\ row = [original |-> NaN, search_core_name |-> NaN, predecessor |-> NaN]
    /\ candidates = <<>>
    /\ candidates_pred = <<>>
    /\ matches = <<>>
    /\ issued = <<>>
    /\ stage_log = <<>>
    /\ result = None

\* the three query strings of one name
BuildQueries ==
    /\ qpc = "name"
    /\ qmain' = finalize_fdic_query(qname)
    /\ qstrict' = construct_fallback_query(qname, "strict")
    /\ qloose' = construct_fallback_query(qname, "loose")
    /\ qpc' = "done"
    /\ UNCHANGED <<qname, filterVars, matchVars, runVars, lateVars>>

QueryIdle ==
    /\ qpc = "done"
    /\ qname = NaN
    /\ qmain = None
    /\ qstrict = None
    /\ qloose = None

(***************************************************************************)
(* The resumable runs: step2b_query_gen.py run, step3_fdic_matching.py run *)
(***************************************************************************)
\* the batch size of the normalizer (config.BATCH_SIZE_QUERY is 30) and the
\* flush threshold of the matcher (10 at line 309), scaled down
BATCH_SIZE_QUERY == 1
MatcherFlushSize == 2

\* the key column of a checkpoint row, as read_csv(...)[column].astype(str)
\* reads it back: a missing value was written as an empty field
csv_key(v) == IF isna(v) THEN <<"n","a","n">> ELSE v

row_key(r) ==
    IF run_stage = "normalizer" THEN csv_key(r.original) ELSE csv_key(r.Lender_Name_Input)

processed(file) == { row_key(file[i]) : i \in DOMAIN file }

\* step2b line 162
to_process(names, done) ==
    SelectSeq(names, LAMBDA n : str(n) \notin done /\ Len(str(n)) > 1)

\* step2b line 169
batches(names, size) ==
    [k \in 1..((Len(names) + size - 1) \div size) |->
        SubSeq(names, (k - 1) * size + 1,
               IF k * size < Len(names) THEN k * size ELSE Len(names))]

\* step3 lines 294-297
rows(names, done) == SelectSeq(names, LAMBDA n : str(n) \notin done)

\* step2b lines 185-198: the row built from one item of the parsed response
final_row(item) ==
    [original |-> item.original,
     search_core_name |-> item.search_core_name,
     fdic_query_main |-> finalize_fdic_query(item.search_core_name)]

final_rows(ai_results) == [i \in DOMAIN ai_results |-> final_row(ai_results[i])]

\* the response that repeats every submitted name once, in order
echoed(batch) == [i \in DOMAIN batch |-> [original |-> batch[i], search_core_name |-> batch[i]]]

\* to_csv(output_file, mode='a'): the rows are added after the rows present
appended(file, new_rows) == file \o new_rows

\* the buffer and the file after a worker's rows are taken in: the threshold
\* flush of the loop, then the flush after the loop once no future is left
collected(file, buffer, res, threshold, last) ==
    LET extended == buffer \o res
        flushed == Len(extended) >= threshold \/ last
    IN  [file |-> IF flushed THEN appended(file, extended) ELSE file,
         buffer |-> IF flushed THEN <<>> ELSE extended]

\* os.path.exists(output_file): the file was written with its header line
exists(header) == header # {}

\* header=not os.path.exists(output_file): a header line goes before the
\* rows of a write that finds no file
write_header_always(header, file, wrote) ==
    IF wrote THEN header \cup {Len(file)} ELSE header

write_header(header, file, wrote) ==
    IF wrote /\ ~exists(header) THEN {Len(file)} ELSE header

\* parse_json(...) or []: the items of a response, none when it does not parse
ai_results(reply) == IF reply.parsed THEN reply.items ELSE <<>>

\* the futures whose worker has returned and which the loop has not seen
completed == DOMAIN results

\* the futures without their entry i
without(f, i) == [j \in (DOMAIN f) \ {i} |-> f[j]]

\* step2b lines 82-88 and 166: Ark(api_key=config.ARK_API_KEY) is library code;
\* without a key it may raise, or build a client whose requests all fail
init_client_raises(credential) == ~credential

\* the replies of a client that answers without a key
replies_of_any(credential, replies, batch) ==
    replies \cup { [parsed |-> TRUE, items |-> echoed(batch)] }

\* the replies a request of the client can get
replies_of(credential, replies, batch) ==
    IF credential THEN replies \cup { [parsed |-> TRUE, items |-> echoed(batch)] }
    ELSE { [parsed |-> FALSE, items |-> <<>>] }

\* step2b lines 130-169: without its input file the run ends; else the names
\* left to do are cut into batches and the client is made
NormalizerStart ==
    /\ run_stage = "normalizer"
    /\ rpc = "start"
    /\ LET todo == to_process(input_names, processed(output_file)) IN
       IF ~run_env.input_exists
       THEN /\ rpc' = "failed"
            /\ UNCHANGED <<submitted, futures>>
       ELSE IF todo = <<>>
       THEN /\ rpc' = "done"
            /\ UNCHANGED <<submitted, futures>>
       ELSE \/ /\ init_client_raises(run_env.credential)
               /\ rpc' = "failed"
               /\ UNCHANGED <<submitted, futures>>
            \/ /\ submitted' = batches(todo, BATCH_SIZE_QUERY)
               /\ futures' = DOMAIN batches(todo, BATCH_SIZE_QUERY)
               /\ rpc' = "collect"
    /\ UNCHANGED <<run_stage, input_names, output_file, output_at_start, results_buffer,
                   requested, run_no, results, header_at, returned, dispatch_log,
                   run_env, filterVars, queryVars, matchVars, lateVars>>

\* step2b lines 171-206: a worker runs process_batch on its batch and returns
\* the rows built from the collaborator's reply (none for a reply that does
\* not parse, as for an error); it touches neither the file nor the buffer
process_batch(replies) ==
    /\ run_stage = "normalizer"
    /\ rpc = "collect"
    /\ \E b \in futures \ completed :
         \E reply \in replies_of(run_env.credential, replies, submitted[b]) :
           LET final == final_rows(ai_results(reply)) IN
           /\ results' = (b :> [raised |-> FALSE, rows |-> final]) @@ results
           /\ requested' = requested \cup Range(submitted[b])
           /\ dispatch_log' = Append(dispatch_log,
                                     [run |-> run_no, item |-> submitted[b],
                                      parsed |-> reply.parsed, rows |-> final])
    /\ UNCHANGED <<run_stage, rpc, input_names, output_file, output_at_start, submitted,
                   futures, results_buffer, run_no, header_at, returned,
                   run_env, filterVars, queryVars, matchVars, lateVars>>

\* step2b lines 208-227: the loop takes in the rows of the next completed
\* batch, flushes the buffer at the threshold and, after the last batch,
\* flushes what is left
NormalizerBatchDone ==
    /\ run_stage = "normalizer"
    /\ rpc = "collect"
    /\ \E b \in completed :
         LET res == results[b].rows
             c == collected(output_file, results_buffer, res,
                            BATCH_SIZE_QUERY * 2, futures = {b})
         IN  /\ output_file' = c.file
             /\ results_buffer' = c.buffer
             /\ header_at' = write_header(header_at, output_file, c.file # output_file)
             /\ returned' = returned \o res
             /\ futures' = futures \ {b}
             /\ results' = without(results, b)
             /\ rpc' = IF futures = {b} THEN "done" ELSE "collect"
    /\ UNCHANGED <<run_stage, input_names, output_at_start, submitted, requested,
                   run_no, dispatch_log, run_env, filterVars, queryVars, matchVars, lateVars>>

\* step3 lines 286-303: the rows left to do are submitted one by one
MatcherStart ==
    /\ run_stage = "matcher"
    /\ rpc = "start"
    /\ LET todo == rows(input_names, processed(output_file)) IN
       IF ~run_env.input_exists
       THEN /\ rpc' = "failed"
            /\ UNCHANGED <<submitted, futures>>
       ELSE IF todo = <<>>
       THEN /\ rpc' = "done"
            /\ UNCHANGED <<submitted, futures>>
       ELSE /\ submitted' = todo
            /\ futures' = DOMAIN todo
            /\ rpc' = "collect"
    /\ UNCHANGED <<run_stage, input_names, output_file, output_at_start, results_buffer,
                   requested, run_no, results, header_at, returned, dispatch_log,
                   run_env, filterVars, queryVars, matchVars, lateVars>>

\* step3 lines 212-268 as the pool sees them: a worker runs process_row on
\* its row and returns the row's result (a failed request is a miss inside
\* process_row), or an exception escapes process_row
MatcherWorkerDone ==
    /\ run_stage = "matcher"
    /\ rpc = "collect"
    /\ \E i \in futures \ completed :
         \E outcome \in { [raised |-> TRUE, rows |-> <<>>] } \cup
                        { [raised |-> FALSE,
                           rows |-> <<[Lender_Name_Input |-> submitted[i], Found |-> f]>>] :
                          f \in BOOLEAN } :
           /\ results' = (i :> outcome) @@ results
           /\ requested' = requested \cup {submitted[i]}
           /\ dispatch_log' = Append(dispatch_log,
                                     [run |-> run_no, item |-> <<submitted[i]>>,
                                      parsed |-> ~outcome.raised, rows |-> outcome.rows])
    /\ UNCHANGED <<run_stage, rpc, input_names, output_file, output_at_start, submitted,
                   futures, results_buffer, run_no, header_at, returned,
                   run_env, filterVars, queryVars, matchVars, lateVars>>

\* step3 lines 305-320: the loop takes in the row of the next completed
\* future (an exception of future.result() is swallowed and nothing is taken
\* in), flushes at the threshold and, after the last future, flushes the rest
MatcherRowDone ==
    /\ run_stage = "matcher"
    /\ rpc = "collect"
    /\ \E i \in completed :
         LET res == IF results[i].raised THEN <<>> ELSE results[i].rows
             c == collected(output_file, results_buffer, res,
                            MatcherFlushSize, futures = {i})
         IN  /\ output_file' = c.file
             /\ results_buffer' = c.buffer
             /\ header_at' = write_header(header_at, output_file, c.file # output_file)
             /\ returned' = returned \o res
             /\ futures' = futures \ {i}
             /\ results' = without(results, i)
             /\ rpc' = IF futures = {i} THEN "done" ELSE "collect"
    /\ UNCHANGED <<run_stage, input_names, output_at_start, submitted, requested,
                   run_no, dispatch_log, run_env, filterVars, queryVars, matchVars, lateVars>>

\* the stage is run once more on the same input, with the file the first
\* run left as its checkpoint
Rerun ==
    /\ rpc = "done"
    /\ run_no = "first"
    /\ run_no' = "next"
    /\ rpc' = "start"
    /\ output_at_start' = output_file
    /\ submitted' = <<>>
    /\ requested' = {}
    /\ returned' = <<>>
    /\ UNCHANGED <<run_stage, input_names, output_file, futures, results_buffer,
                   results, header_at, dispatch_log, run_env, filterVars, queryVars, matchVars, lateVars>>

RunIdle ==
    /\ run_stage = "normalizer"
    /\ rpc = "done"
    /\ input_names = <<>>
    /\ output_file = <<>>
    /\ output_at_start = <<>>
    /\ submitted = <<>>
    /\ futures = {}
    /\ results_buffer = <<>>
    /\ requested = {}
    /\ run_no = "next"
    /\ run_env = [input_exists |-> TRUE, credential |-> TRUE]
    /\ results = <<>>
    /\ header_at = {}
    /\ returned = <<>>
    /\ dispatch_log = <<>>

(***************************************************************************)
(* step2b_query_gen.py: parse_json. A response is a sequence of pieces of  *)
(* text: the fence of three backticks with and without the word json      *)
(* after it, a line break, a blank, a word of                              *)
(* prose, and JSON texts (an array of one record, an object with the       *)
(* array under "results", an object that is one record, a cut-off array)   *)
(***************************************************************************)
FenceJson == "<fence>json"
Fence == "<fence>"
LineBreak == "\n"
Blank == " "
Prose == "Here:"
JsonArray == "[{\"original\": \"AB\"}]"
JsonResults == "{\"results\": [{\"original\": \"AB\"}]}"
JsonRecord == "{\"original\": \"AB\"}"
JsonCutOff == "[{\"original\":"

IsBlankPiece(p) == p \in { LineBreak, Blank }

\* the pieces that start with '[' or '{'
IsBracketPiece(p) == p \in { JsonArray, JsonResults, JsonRecord, JsonCutOff }

IsJsonValue(p) == p \in { JsonArray, JsonResults, JsonRecord }

\* str.strip() on pieces
RECURSIVE lstrip_pieces(_)
lstrip_pieces(t) ==
    IF t # <<>> /\ IsBlankPiece(Head(t)) THEN lstrip_pieces(Tail(t)) ELSE t

RECURSIVE rstrip_pieces(_)
rstrip_pieces(t) ==
    IF t # <<>> /\ IsBlankPiece(t[Len(t)])
    THEN rstrip_pieces(SubSeq(t, 1, Len(t) - 1)) ELSE t

strip_pieces(t) == rstrip_pieces(lstrip_pieces(t))

\* the place after the white space that starts at i
RECURSIVE after_blanks(_, _)
after_blanks(t, i) ==
    IF i <= Len(t) /\ IsBlankPiece(t[i]) THEN after_blanks(t, i + 1) ELSE i

\* re.sub(r'^<fence>json\s*|^<fence>\s*|<fence>$', '', clean_raw, flags=re.MULTILINE)
\* from piece i on: a fence at the start of a line goes with the white space
\* after it, a bare fence at the end of a line goes alone
RECURSIVE sub_fences(_, _)
sub_fences(t, i) ==
    IF i > Len(t) THEN <<>>
    ELSE LET line_start == i = 1 \/ t[i - 1] = LineBreak
             line_end == i = Len(t) \/ t[i + 1] = LineBreak
         IN  IF t[i] \in { FenceJson, Fence } /\ line_start
             THEN sub_fences(t, after_blanks(t, i + 1))
             ELSE IF t[i] = Fence /\ line_end THEN sub_fences(t, i + 1)
             ELSE <<t[i]>> \o sub_fences(t, i + 1)

\* what the call gives process_batch: parsed is FALSE for None
not_parsed == [parsed |-> FALSE, items |-> <<>>]

the_record == [original |-> <<"A","B">>, search_core_name |-> <<"A","B">>]

\* json.loads(clean_raw) and lines 99-101: white space around one JSON value
\* is allowed, anything else raises; an array is returned as it is, an object
\* gives its "results" or the list of itself
json_loads(t) ==
    LET value == strip_pieces(t) IN
    IF Len(value) = 1 /\ IsJsonValue(value[1])
    THEN [parsed |-> TRUE, items |-> << the_record >>]
    ELSE not_parsed

\* lines 91-106
parse_json(response) ==
    IF response = None \/ response = <<>> THEN not_parsed
    ELSE LET stripped == strip_pieces(response)
             clean_raw == IF stripped # <<>> /\ Head(stripped) \in { FenceJson, Fence }
                          THEN sub_fences(stripped, 1) ELSE stripped
         IN  IF clean_raw # <<>> /\ IsBracketPiece(Head(clean_raw))
             THEN json_loads(clean_raw)
             ELSE not_parsed

\* step2b line 182: the response is parsed
ParseJson ==
    /\ ppc = "raw"
    /\ parsed' = parse_json(raw)
    /\ ppc' = "done"
    /\ UNCHANGED <<raw, pipelineVars, idVars, mergeVars, scoreVars>>

ParseIdle ==
    /\ ppc = "done"
    /\ raw = <<>>
    /\ parsed = not_parsed

(***************************************************************************)
(* step4_merge_final.py: clean_id                                          *)
(***************************************************************************)
IsSign(c) == c \in {"+", "-"}

unsigned(t) == IF t # <<>> /\ IsSign(Head(t)) THEN Tail(t) ELSE t

\* digits with at most one period, one digit at least
IsDecimal(u) ==
    /\ \E i \in DOMAIN u : IsDigit(u[i])
    /\ \A i \in DOMAIN u : IsDigit(u[i]) \/ u[i] = "."
    /\ Cardinality({ i \in DOMAIN u : u[i] = "." }) <= 1

IsNanWord(u) == lower(u) = <<"n","a","n">>

\* float(val) returns for the string: white space around, an optional sign,
\* then a decimal numeral or the word nan (the strings of the model hold no
\* exponent, no underscore and no other word float() reads)
float_accepts(s) ==
    LET u == unsigned(strip(s)) IN IsDecimal(u) \/ IsNanWord(u)

\* str(int(float(val))) of a decimal numeral: the integer part, truncated
\* toward zero
int_float_str(s) ==
    LET t == strip(s)
        digits == IntegerPart(unsigned(t))
    IN  IF Head(t) = "-" /\ digits # <<"0">> THEN <<"-">> \o digits ELSE digits

\* lines 14-23; int(float('nan')) raises, and the except branch answers
clean_id(val) ==
    IF \/ isna(val)
       \/ strip(str(val)) = <<>>
       \/ lower(str(val)) \in { <<"n","a","n">>, <<"n","o","n","e">> }
    THEN None
    ELSE IF float_accepts(str(val)) /\ ~IsNanWord(unsigned(strip(str(val))))
         THEN int_float_str(str(val))
         ELSE strip(str(val))

\* an identifier is normalized, and the result is normalized once more
CleanId ==
    /\ ipc = "value"
    /\ id_clean' = clean_id(id_val)
    /\ id_again' = clean_id(clean_id(id_val))
    /\ ipc' = "done"
    /\ UNCHANGED <<id_val, pipelineVars, mergeVars, scoreVars, parseVars>>

IdIdle ==
    /\ ipc = "done"
    /\ id_val = NaN
    /\ id_clean = None
    /\ id_again = None

(***************************************************************************)
(* step3_fdic_matching.py: the scoring loop of select_top_matches, on the  *)
(* measures of its candidates                                              *)
(***************************************************************************)
\* lines 144-172: one pass of the loop gives the next candidate its
\* final_score
ScoreCandidate ==
    /\ spc = "score"
    /\ Len(sc_scores) < Len(sc_cands)
    /\ LET cand == sc_cands[Len(sc_scores) + 1]
       IN  sc_scores' = Append(sc_scores,
               composite_score(cand.char_sim, cand.token_sim, cand.is_boundary_safe))
    /\ spc' = IF Len(sc_scores) + 1 = Len(sc_cands) THEN "select" ELSE "score"
    /\ UNCHANGED <<sc_cands, sc_top, pipelineVars, idVars, mergeVars, parseVars>>

\* the candidates with the calc_score the loop gave them (line 166)
sc_scored == [i \in DOMAIN sc_cands |-> [calc_score |-> sc_scores[i]] @@ sc_cands[i]]

\* lines 174-205: the scored candidates are filtered, ranked and returned
SelectTop ==
    /\ spc = "select"
    /\ sc_top' = top_of(sc_scored, top_k)
    /\ spc' = "done"
    /\ UNCHANGED <<sc_cands, sc_scores, pipelineVars, idVars, mergeVars, parseVars>>

ScoreIdle ==
    /\ spc = "done"
    /\ sc_cands = <<>>
    /\ sc_scores = <<>>
    /\ sc_top = <<>>

(***************************************************************************)
(* step4_merge_final.py: load_master_map, run                              *)
(***************************************************************************)
\* range(1, 6): the ranked slots Match1..Match5
MatchSlots == 5

DigitValue(c) == CHOOSE n \in 0..9 : ToString(n) = c

\* re.search(r'20\d{2}', filename) and int(year_match.group(0)): the leftmost
\* "20" with two digits after it, as a number; 0 stands for no match
year_of(filename) ==
    LET hits == { i \in 1..(Len(filename) - 3) :
                    /\ filename[i] = "2" /\ filename[i + 1] = "0"
                    /\ IsDigit(filename[i + 2]) /\ IsDigit(filename[i + 3]) }
    IN  IF hits = {} THEN 0
        ELSE LET i == CHOOSE h \in hits : \A k \in hits : h <= k
             IN  2000 + 10 * DigitValue(filename[i + 2]) + DigitValue(filename[i + 3])

\* the year found in the name of the last file merged
file_year == year_of(call_file.filename)

IsNum(v) == Len(v) = 2 /\ v[1] = "num"

\* pd.to_numeric(column, errors='coerce').fillna(0).astype(int) on one cell:
\* a number stays, a missing cell and a string that is no number give 0 (the
\* string cells of the model are no numbers)
to_int(v) == IF isna(v) THEN 0 ELSE IF IsNum(v) THEN v[2] ELSE 0

\* the rows of a list of tables, one table after the other
RECURSIVE concat(_)
concat(tables) ==
    IF tables = <<>> THEN <<>> ELSE Head(tables) \o concat(Tail(tables))

\* lines 46-48
clean_map_row(r) ==
    [Lender_Name_Input |-> r.Lender_Name_Input,
     RSSD |-> [i \in 1..MatchSlots |-> clean_id(r.RSSD[i])]]

\* line 52: dropna(subset=['Match1_RSSD'])
dropna_match1(cleaned) == SelectSeq(cleaned, LAMBDA r : r.RSSD[1] # None)

\* lines 26-55
load_master_map(file) ==
    dropna_match1([i \in DOMAIN file |-> clean_map_row(file[i])])

\* lines 100-113; rec numbers the statement records of the file
read_call(file, year) ==
    [i \in DOMAIN file.rows |->
        [rec |-> i,
         year |-> IF file.has_year THEN to_int(file.rows[i].year) ELSE year,
         quarter |-> IF file.has_quarter THEN to_int(file.rows[i].quarter) ELSE 0,
         rssdid |-> clean_id(file.rows[i].rssdid),
         name |-> file.rows[i].name]]

\* lines 135-137; loan numbers the loan records of the file
read_ds(loans) ==
    [i \in DOMAIN loans |->
        [loan |-> i,
         Lender_Name |-> loans[i].Lender_Name,
         Lender_Id |-> clean_id(loans[i].Lender_Id),
         year |-> to_int(loans[i].year),
         quarter |-> to_int(loans[i].quarter)]]

\* lines 140-146: pd.merge(df_ds, df_map, how='inner') on the lender name
merge_inner(df_ds, map) ==
    concat([i \in DOMAIN df_ds |->
        LET hits == SelectSeq(map, LAMBDA r : r.Lender_Name_Input = df_ds[i].Lender_Name)
        IN  [h \in DOMAIN hits |->
                [loan |-> df_ds[i].loan, Lender_Name |-> df_ds[i].Lender_Name,
                 Lender_Id |-> df_ds[i].Lender_Id, year |-> df_ds[i].year,
                 quarter |-> df_ds[i].quarter, RSSD |-> hits[h].RSSD]]])

\* lines 149-163: one table per slot, of the rows whose slot holds an
\* identifier, concatenated; nothing is deduplicated
lookup_records(df_ds_mapped) ==
    [i \in 1..MatchSlots |->
        LET temp == SelectSeq(df_ds_mapped, LAMBDA r : r.RSSD[i] # None)
        IN  [t \in DOMAIN temp |->
                [loan |-> temp[t].loan, slot |-> i,
                 year |-> temp[t].year, quarter |-> temp[t].quarter,
                 Lender_Name |-> temp[t].Lender_Name, Lender_Id |-> temp[t].Lender_Id,
                 Target_RSSD |-> temp[t].RSSD[i]]]]

\* lines 119-169: no loan-record file of the year leaves the lookup empty
build_lookup(file, map) ==
    IF ~file.found THEN <<>>
    ELSE concat(lookup_records(merge_inner(read_ds(file.rows), map)))

panel_row(c, lender_name, lender_id) ==
    [rec |-> c.rec, year |-> c.year, quarter |-> c.quarter, name |-> c.name,
     rssdid |-> c.rssdid, Lender_Name |-> lender_name, Lender_Id |-> lender_id]

joins(c, l) ==
    c.rssdid = l.Target_RSSD /\ c.year = l.year /\ c.quarter = l.quarter

\* pd.merge(..., how='inner') in the place of line 178
merge_matched_only(df_call, lookup) ==
    concat([i \in DOMAIN df_call |->
        LET hits == SelectSeq(lookup, LAMBDA l : joins(df_call[i], l))
        IN  [h \in DOMAIN hits |->
                panel_row(df_call[i], hits[h].Lender_Name, hits[h].Lender_Id)]])

\* lines 173-179: pd.merge(df_call, df_lookup, how='left') on identifier,
\* year and quarter
merge_left(df_call, lookup) ==
    concat([i \in DOMAIN df_call |->
        LET hits == SelectSeq(lookup, LAMBDA l : joins(df_call[i], l))
        IN  IF hits = <<>> THEN << panel_row(df_call[i], None, None) >>
            ELSE [h \in DOMAIN hits |->
                     panel_row(df_call[i], hits[h].Lender_Name, hits[h].Lender_Id)]])

\* lines 172-193
final_panel(df_call, lookup) ==
    IF lookup # <<>> THEN merge_left(df_call, lookup)
    ELSE [i \in DOMAIN df_call |-> panel_row(df_call[i], None, None)]

\* lines 119-133 and 168: the loan-record table of a year; a file that glob
\* does not find, or that read_csv(usecols=...) rejects for a missing column,
\* gives none
no_ds_file == [found |-> FALSE, has_cols |-> FALSE, rows |-> <<>>]

ds_entry(dir, year) == IF year \in DOMAIN dir THEN dir[year] ELSE no_ds_file

read_ds_file(entry) ==
    IF entry.found /\ entry.has_cols THEN [found |-> TRUE, rows |-> entry.rows]
    ELSE [found |-> FALSE, rows |-> <<>>]

\* lines 79-80 alone: only a name without a year is passed over
skipped_without_year_only(file) == year_of(file.filename) = 0

\* lines 79-80 and 94-97: the files the loop passes over
skipped(file) == year_of(file.filename) = 0 \/ ~file.has_cols

\* to_csv(output_file, mode='a') in the place of line 200
to_csv_appending(dir, year, panel) ==
    (year :> ((IF year \in DOMAIN dir THEN dir[year] ELSE <<>>) \o panel)) @@ dir

\* lines 199-200: to_csv(output_file) writes the file anew
to_csv(dir, year, panel) == (year :> panel) @@ dir

\* lines 63-75: the mapping is loaded and the call-report files are listed; a
\* missing mapping file, and a directory without call-report files, end the run
LoadMasterMap ==
    /\ gpc = "load"
    /\ IF ~map_exists
       THEN /\ gpc' = "failed"
            /\ UNCHANGED df_map
       ELSE /\ df_map' = load_master_map(master_map)
            /\ gpc' = IF call_files = <<>> THEN "failed" ELSE "file"
    /\ UNCHANGED <<map_exists, master_map, call_files, ds_files, gnext, outputs,
                   ds_file, call_file, df_lookup, df_output,
                   pipelineVars, idVars, scoreVars, parseVars>>

\* lines 77-201, one pass of the loop: the next call-report file is passed
\* over, or it is read, the lookup of its year is built, the two are joined
\* and the panel of the year is written
MergeCallFile ==
    /\ gpc = "file"
    /\ LET file == call_files[gnext]
           year == year_of(file.filename)
           table == read_ds_file(ds_entry(ds_files, year))
           lookup == build_lookup(table, df_map)
           panel == final_panel(read_call(file, year), lookup)
       IN  IF skipped(file)
           THEN UNCHANGED <<outputs, ds_file, call_file, df_lookup, df_output>>
           ELSE /\ call_file' = file
                /\ ds_file' = table
                /\ df_lookup' = lookup
                /\ df_output' = panel
                /\ outputs' = to_csv(outputs, year, panel)
    /\ gnext' = gnext + 1
    /\ gpc' = IF gnext = Len(call_files) THEN "done" ELSE "file"
    /\ UNCHANGED <<map_exists, master_map, call_files, ds_files, df_map,
                   pipelineVars, idVars, scoreVars, parseVars>>

no_call_file ==
    [filename |-> <<>>, has_cols |-> FALSE, has_year |-> FALSE, has_quarter |-> FALSE,
     rows |-> <<>>]

MergeIdle ==
    /\ gpc = "done"
    /\ map_exists = TRUE
    /\ master_map = <<>>
    /\ call_files = <<>>
    /\ ds_files = <<>>
    /\ gnext = 1
    /\ outputs = <<>>
    /\ ds_file = [found |-> FALSE, rows |-> <<>>]
    /\ call_file = no_call_file
    /\ df_map = <<>>
    /\ df_lookup = <<>>
    /\ df_output = <<>>

(***************************************************************************)
(* Inputs of the candidate filter                                          *)
(***************************************************************************)
MaxNameWords == 3
MaxCountryPieces == 3

\* every p1 sep p2 sep ... of at most n pieces
RECURSIVE Joined(_, _, _)
Joined(pieces, seps, n) ==
    IF n <= 1 THEN pieces
    ELSE LET prev == Joined(pieces, seps, n - 1) IN
         prev \cup { p \o s \o w : p \in prev, s \in seps, w \in pieces }

NameWords ==
    { <<"E","x","a","m","p","l","e">>, <<"C","a","p","i","t","a","l">>,
      <<"F","u","n","d">>, <<"B","a","n","k">>, <<"C","L","O">> }

FilterNames ==
    Joined(NameWords, { <<" ">>, <<".">> }, MaxNameWords)
    \cup { <<" ">> \o n \o <<" ">> : n \in NameWords } \cup { NaN }

BankTestTypes ==
    { NaN, <<"I","n","v","e","s","t","m","e","n","t"," ","B","a","n","k">> }

USTestTypes ==
    { NaN, <<"U","S"," ","B","a","n","k">>, <<"u","s"," ","b","a","n","k">> }

CountryPieces ==
    { <<"U">>, <<"S">>, <<"A">>, <<".">>, <<"S",".">>, <<" ">>, <<"_">>,
      <<"n","i","t","e","d"," ","S","t","a","t","e","s">>,
      <<" ","o","f"," ","A","m","e","r","i","c","a">>,
      <<"B","L","E"," ","N","A","T","I","O","N">> }

Countries == Joined(CountryPieces, { <<>> }, MaxCountryPieces) \cup { NaN, <<>> }

FilterRows ==
    { [Lender_Name |-> n, Lender_Institution_Type |-> t,
       Lender_Operating_Country |-> <<"U","S","A">>] :
          n \in FilterNames, t \in BankTestTypes }
    \cup
    { [Lender_Name |-> <<"A","c","m","e"," ","B","a","n","k">>,
       Lender_Institution_Type |-> t, Lender_Operating_Country |-> c] :
          t \in USTestTypes, c \in Countries }

InitFilter ==
    /\ fpc = "row"
    /\ rec \in FilterRows
    /\ isBank = FALSE
    /\ isUS = FALSE
    /\ kept = FALSE
    /\ QueryIdle
    /\ MatchIdle
    /\ RunIdle
    /\ IdIdle
    /\ MergeIdle
    /\ ScoreIdle
    /\ ParseIdle

NextFilter == FilterRow

SpecFilter == InitFilter /\ [][NextFilter]_vars

(***************************************************************************)
(* C1: is_potential_bank_entity(row) is true if and only if (the           *)
(* lower-cased name contains a whitelist substring or the institution type *)
(* contains "bank") and the name does not end with a space or a period     *)
(* followed by a blacklist ending.                                         *)
(***************************************************************************)
C1_NameLower == IF isna(rec.Lender_Name) THEN <<>> ELSE lower(strip(rec.Lender_Name))

C1_Included ==
    \/ \E kw \in whitelist : Contains(C1_NameLower, kw)
    \/ /\ ~isna(rec.Lender_Institution_Type)
       /\ Contains(lower(rec.Lender_Institution_Type), <<"b","a","n","k">>)

C1_BankIffIncludedAndNotExcluded ==
    fpc = "done" =>
        (isBank <=> (~isna(rec.Lender_Name) /\ C1_Included
                      /\ ~HasExcludedEnding(C1_NameLower)))

(***************************************************************************)
(* C2: is_us_company(row) is true if and only if the country, lower-cased  *)
(* and with punctuation and surrounding white space stripped, is exactly   *)
(* one of the accepted spellings, or the institution type contains the     *)
(* literal "US Bank"; a missing or NaN country fails the country check.    *)
(* Punctuation is what the code strips: every character that is neither a  *)
(* word character (letter, digit, underscore) nor white space.             *)
(***************************************************************************)
C2_AcceptedSpellings ==
    { <<"u","n","i","t","e","d"," ","s","t","a","t","e","s">>,
      <<"u","s","a">>, <<"u","s">>,
      <<"u","n","i","t","e","d"," ","s","t","a","t","e","s"," ","o","f"," ",
        "a","m","e","r","i","c","a">>,
      <<"u",".","s",".","a">>, <<"u",".","s">> }

C2_Normalized(c) ==
    strip(SelectSeq(lower(c), LAMBDA ch : IsWordChar(ch) \/ IsSpace(ch)))

C2_CountryIsUS ==
    /\ ~isna(rec.Lender_Operating_Country)
    /\ C2_Normalized(rec.Lender_Operating_Country) \in C2_AcceptedSpellings

C2_InstIsUSBank ==
    /\ ~isna(rec.Lender_Institution_Type)
    /\ Contains(rec.Lender_Institution_Type, <<"U","S"," ","B","a","n","k">>)

C2_USIffExactSpelling ==
    fpc = "done" => (isUS <=> (C2_CountryIsUS \/ C2_InstIsUSBank))

\* "U.S." is accepted on the country alone
C2_Witness ==
    /\ fpc = "done"
    /\ rec.Lender_Operating_Country = <<"U",".","S",".">>
    /\ ~C2_InstIsUSBank
    /\ isUS

\* "USABLE NATION" is rejected
C2_WitnessUsable ==
    /\ fpc = "done"
    /\ rec.Lender_Operating_Country = <<"U","S","A">> \o <<"B","L","E"," ","N","A","T","I","O","N">>
    /\ ~C2_InstIsUSBank
    /\ ~isUS

(***************************************************************************)
(* Inputs of the query builders                                            *)
(***************************************************************************)
MaxQueryPieces == 4

QueryPieces ==
    { <<"A">>, <<"b">>, <<"7">>, <<" ">>, <<".">>, <<"-">>,
      <<"I","n","c">> }

QueryNames ==
    Joined(QueryPieces, { <<>> }, MaxQueryPieces)
    \cup { NaN, None, <<>>,
           <<"B","a","n","k"," ","o","f"," ","A","m","e","r","i","c","a">> }

InitQuery ==
    /\ qpc = "name"
    /\ qname \in QueryNames
    /\ qmain = None
    /\ qstrict = None
    /\ qloose = None
    /\ FilterIdle
    /\ MatchIdle
    /\ RunIdle
    /\ IdIdle
    /\ MergeIdle
    /\ ScoreIdle
    /\ ParseIdle

NextQuery == BuildQueries

SpecQuery == InitQuery /\ [][NextQuery]_vars

(***************************************************************************)
(* C3: for every input name the query builders (finalize_fdic_query, and   *)
(* construct_fallback_query at level 'strict') return NAME:*X* where X is  *)
(* the name upper-cased, non-alphanumeric characters removed, white-space  *)
(* runs collapsed to one space and each remaining space backslash-escaped, *)
(* and return null whenever the cleaned name has fewer than 2 characters.  *)
(***************************************************************************)
C3_Cleaned(name) ==
    CollapseSpaces(strip(SelectSeq(upper(name),
        LAMBDA c : IsUpper(c) \/ IsDigit(c) \/ IsSpace(c))))

C3_Expected(name) ==
    IF isna(name) \/ Len(C3_Cleaned(name)) < 2 THEN None
    ELSE <<"N","A","M","E",":","*">> \o EscapeSpaces(C3_Cleaned(name)) \o <<"*">>

C3_QueryIsEscapedCleanName ==
    qpc = "done" => /\ qmain = C3_Expected(qname)
                    /\ qstrict = C3_Expected(qname)

\* the part of the claim that is about construct_fallback_query alone
C3_StrictQueryIsEscapedCleanName ==
    qpc = "done" => qstrict = C3_Expected(qname)

(***************************************************************************)
(* Inputs of the matcher: the lists of institutions the registry may       *)
(* answer with, in the orders the score and asset sorts tell apart         *)
(***************************************************************************)
MaxShuffled == 2

\* the members of a set of indices in increasing, and in decreasing, order
Ascending(S) ==
    [p \in 1..Cardinality(S) |-> CHOOSE i \in S : Cardinality({ j \in S : j < i }) = p - 1]
Descending(S) ==
    [p \in 1..Cardinality(S) |-> CHOOSE i \in S : Cardinality({ j \in S : j > i }) = p - 1]

\* every order of at most n distinct indices
RECURSIVE Shuffled(_, _)
Shuffled(S, n) ==
    IF n = 0 THEN { <<>> }
    ELSE LET prev == Shuffled(S, n - 1) IN
         prev \cup { Append(q, i) : q \in { x \in prev : Len(x) = n - 1 }, i \in S }

IndexLists ==
    { Ascending(S) : S \in SUBSET DOMAIN Institutions }
    \cup { Descending(S) : S \in SUBSET DOMAIN Institutions }
    \cup { q \in Shuffled(DOMAIN Institutions, MaxShuffled) :
             \A i, j \in DOMAIN q : i # j => q[i] # q[j] }

Responses == { [p \in DOMAIN q |-> Institutions[q[p]]] : q \in IndexLists }

InitMatch ==
    /\ mpc = "stage1"
    /\ row \in Lenders
    /\ candidates = <<>>
    /\ candidates_pred = <<>>
    /\ matches = <<>>
    /\ issued = <<>>
    /\ stage_log = <<>>
    /\ result = None
    /\ FilterIdle
    /\ QueryIdle
    /\ RunIdle
    /\ IdIdle
    /\ MergeIdle
    /\ ScoreIdle
    /\ ParseIdle

NextMatch ==
    \/ Stage1Search(Responses)
    \/ Stage2Search(Responses)
    \/ Stage2Skip
    \/ Stage3Search(Responses)
    \/ Stage3Skip
    \/ EmitResult

SpecMatch == InitMatch /\ [][NextMatch]_vars

(***************************************************************************)
(* The cascade of process_row, read off the log of the stages it ran       *)
(***************************************************************************)
\* the stage that ran last, and the registry's answer to it
C4_Last == stage_log[Len(stage_log)]
C4_Response == IF C4_Last.stage = 3 THEN candidates_pred ELSE candidates

C4_ExpectedQuery(stage) ==
    IF stage = 1 THEN construct_fallback_query(target_name(row), "strict")
    ELSE IF stage = 2 THEN construct_fallback_query(target_name(row), "loose")
    ELSE construct_fallback_query(row.predecessor, "strict")

\* C4: the stages run in the order strict(core), loose(core),
\* strict(predecessor); a stage runs, and its request is issued, only if every
\* earlier stage gave no qualified match; stage 3 runs only with a predecessor;
\* stages 1 and 2 score against the core name and stage 3 against the
\* predecessor; the reported matches are those of the last stage that ran,
\* which is the first successful one when any stage succeeded
C4_CascadeStopsAtFirstSuccess ==
    /\ \A i \in DOMAIN stage_log :
         /\ \A j \in DOMAIN stage_log :
              j < i => /\ stage_log[j].stage < stage_log[i].stage
                       /\ stage_log[j].n_matches = 0
         /\ stage_log[i].stage \in {1, 2} => stage_log[i].target = target_name(row)
         /\ stage_log[i].stage = 3 =>
              ~isna(row.predecessor) /\ stage_log[i].target = row.predecessor
    /\ \A i \in DOMAIN issued :
         /\ issued[i].query = C4_ExpectedQuery(issued[i].stage)
         /\ \E e \in DOMAIN stage_log :
              stage_log[e].stage = issued[i].stage /\ stage_log[e].sent
         /\ \A j \in DOMAIN issued : j < i => issued[j].stage < issued[i].stage
    /\ stage_log # <<>> =>
         /\ matches = select_top_matches(C4_Last.target, C4_Response, top_k)
         /\ Len(matches) = C4_Last.n_matches
    /\ (mpc = "done" /\ stage_log # <<>>) =>
         /\ result.Found = (Len(matches) > 0)
         /\ \A i \in 1..top_k :
              result.Match[i] =
                  IF i <= Len(matches) THEN FilledSlot(matches[i]) ELSE EmptySlot

\* all three requests are issued and the third one finds the match
C4_Witness ==
    /\ mpc = "done"
    /\ stage_log # <<>>
    /\ Len(issued) = 3
    /\ Len(stage_log) = 3
    /\ C4_Last.stage = 3
    /\ C4_Last.n_matches > 0
    /\ result.Found

(***************************************************************************)
(* Boundary safety of short targets                                        *)
(***************************************************************************)
C5_TargetClean == aggressive_clean_name(C4_Last.target)

C5_IsWholeWordMatch(cand) ==
    SearchAtWordStartWhole(C5_TargetClean, aggressive_clean_name(cand.NAME))

\* C5: when the cleaned target has fewer than 10 characters, every candidate
\* whose cleaned name does not hold the cleaned target as a whole word (a word
\* boundary on both sides) scores 0 and is not in the returned list
C5_ShortTargetNeedsWholeWord ==
    (stage_log # <<>> /\ Len(C5_TargetClean) < ShortTargetLen) =>
        /\ \A i \in DOMAIN C4_Response :
             ~C5_IsWholeWordMatch(C4_Response[i]) =>
                 calc_score(C4_Last.target, C4_Response[i]) = <<0, 1>>
        /\ \A i \in DOMAIN matches : C5_IsWholeWordMatch(matches[i])

(***************************************************************************)
(* Admission at 0.6                                                        *)
(***************************************************************************)
C6_Scores == [i \in DOMAIN C4_Response |-> calc_score(C4_Last.target, C4_Response[i])]

C6_Reaching == { i \in DOMAIN C4_Response : RatGe(C6_Scores[i], <<3, 5>>) }

\* C6: every returned candidate scores at least 0.6; a candidate at exactly
\* 0.6 is admitted; the list is empty when no candidate reaches 0.6; and an
\* empty list makes process_row run the next stage whose conditions hold
C6_AdmitsFromSixTenths ==
    /\ stage_log # <<>> =>
         /\ \A i \in DOMAIN matches : RatGe(matches[i].calc_score, <<3, 5>>)
         /\ C6_Reaching = {} <=> matches = <<>>
         /\ Len(matches) = IF Cardinality(C6_Reaching) < top_k
                           THEN Cardinality(C6_Reaching) ELSE top_k
         /\ Cardinality(C6_Reaching) <= top_k =>
              \A i \in C6_Reaching :
                  \E p \in DOMAIN matches : matches[p].CERT = C4_Response[i].CERT
    /\ (/\ mpc \in {"stage3", "emit", "done"}
        /\ stage_log # <<>>
        /\ matches = <<>>
        /\ C4_ExpectedQuery(2) # None
        /\ C4_ExpectedQuery(2) # C4_ExpectedQuery(1))
           => \E e \in DOMAIN stage_log : stage_log[e].stage = 2
    /\ (/\ mpc \in {"emit", "done"}
        /\ stage_log # <<>>
        /\ matches = <<>>
        /\ ~isna(row.predecessor))
           => C4_Last.stage = 3

\* a candidate at exactly 0.6 is returned
C6_Witness ==
    /\ mpc = "done"
    /\ stage_log # <<>>
    /\ \E i \in DOMAIN matches : RatEq(matches[i].calc_score, <<3, 5>>)

\* a stage without a qualified candidate is followed by the next stage
C6_WitnessNextStage ==
    /\ Len(stage_log) = 3
    /\ stage_log[1].n_raw > 0
    /\ stage_log[2].n_raw > 0
    /\ stage_log[3].n_matches > 0

(***************************************************************************)
(* Asset promotion                                                         *)
(***************************************************************************)
C7_Assets == [i \in DOMAIN C4_Response |-> calc_asset(C4_Response[i])]

\* candidate i comes before candidate j in the plain descending-score order
\* (equal scores keep the registry's order)
C7_ScoreBefore(i, j) ==
    \/ RatGt(C6_Scores[i], C6_Scores[j])
    \/ RatEq(C6_Scores[i], C6_Scores[j]) /\ i < j

\* the members of a set of candidates in the plain descending-score order
C7_ScoreOrder(S) ==
    [p \in 1..Cardinality(S) |->
        CHOOSE i \in S : Cardinality({ j \in S : C7_ScoreBefore(j, i) }) = p - 1]

C7_TopScored == CHOOSE i \in C6_Reaching : \A j \in C6_Reaching \ {i} : C7_ScoreBefore(i, j)

\* the qualified candidate with the largest total assets (the first of them
\* in the registry's order when several hold the largest)
C7_Flagship ==
    CHOOSE i \in C6_Reaching :
        \A j \in C6_Reaching \ {i} :
            \/ C7_Assets[i] > C7_Assets[j]
            \/ C7_Assets[i] = C7_Assets[j] /\ i < j

C7_Promoted ==
    /\ C7_Flagship # C7_TopScored
    /\ RatGt(C6_Scores[C7_Flagship], <<3, 4>>)

C7_ExpectedOrder ==
    IF C7_Promoted
    THEN <<C7_Flagship>> \o C7_ScoreOrder(C6_Reaching \ {C7_Flagship})
    ELSE C7_ScoreOrder(C6_Reaching)

\* C7: the flagship is moved to rank 1 exactly when it is not the top-scored
\* candidate and its score is above 0.75; then ranks 2+ are the other
\* qualified candidates in descending score order, and otherwise the list is
\* the plain descending-score order
C7_FlagshipPromotedAboveThreeQuarters ==
    (stage_log # <<>> /\ C6_Reaching # {}) =>
        /\ \A p \in DOMAIN matches :
             matches[p].CERT = C4_Response[C7_ExpectedOrder[p]].CERT
        /\ C7_Flagship # C7_TopScored =>
             (matches[1].CERT = C4_Response[C7_Flagship].CERT
                 <=> RatGt(C6_Scores[C7_Flagship], <<3, 4>>))
        /\ ~C7_Promoted => matches[1].CERT = C4_Response[C7_TopScored].CERT

\* a flagship that scores less than the top-scored candidate is at rank 1
C7_Witness ==
    /\ mpc = "done"
    /\ stage_log # <<>>
    /\ C6_Reaching # {}
    /\ C7_Promoted
    /\ Len(matches) >= 3
    /\ RatLt(matches[1].calc_score, matches[2].calc_score)
    /\ RatGt(matches[2].calc_score, matches[3].calc_score)

\* a flagship at exactly 0.75 stays behind the top-scored candidate
C7_WitnessAtThreshold ==
    /\ stage_log # <<>>
    /\ C6_Reaching # {}
    /\ C7_Flagship # C7_TopScored
    /\ RatEq(C6_Scores[C7_Flagship], <<3, 4>>)
    /\ matches[1].CERT = C4_Response[C7_TopScored].CERT

(***************************************************************************)
(* The shape of the row process_row returns                                *)
(***************************************************************************)
C8_Filled(i) == result.Match[i] # EmptySlot

\* C8: a returned row has at most 5 entries, in the slots 1..n without a gap;
\* Found is true exactly when there is an entry; scores do not increase from
\* rank 2 on; and rank 1 scores less than rank 2 only when the promotion rule
\* fired
C8_RowIsRankedList ==
    (mpc = "done" /\ stage_log # <<>>) =>
        /\ Len(matches) <= 5
        /\ \A i \in DOMAIN matches :
             i <= 5 /\ C8_Filled(i) /\ result.Match[i].Name = matches[i].NAME
        /\ \A i \in 1..5 : C8_Filled(i) => i <= Len(matches)
        /\ \A i \in 1..4 : C8_Filled(i + 1) => C8_Filled(i)
        /\ result.Found <=> C8_Filled(1)
        /\ \A i \in 2..4 :
             C8_Filled(i + 1) =>
                 /\ result.Match[i].SimScore[2] >= result.Match[i + 1].SimScore[2]
                 /\ RatGe(matches[i].calc_score, matches[i + 1].calc_score)
        /\ (C8_Filled(2) /\ RatLt(matches[1].calc_score, matches[2].calc_score)) =>
               /\ C7_Promoted
               /\ matches[1].CERT = C4_Response[C7_Flagship].CERT

\* a full row whose first entry was promoted over a better-scored one
C8_Witness ==
    /\ mpc = "done"
    /\ stage_log # <<>>
    /\ \A i \in 1..5 : C8_Filled(i)
    /\ Cardinality(C6_Reaching) > 5
    /\ result.Match[1].SimScore[2] < result.Match[2].SimScore[2]
    /\ result.Match[2].SimScore[2] > result.Match[5].SimScore[2]

(***************************************************************************)
(* The row of a lender no stage resolves                                   *)
(***************************************************************************)
\* the stage of the last request the cascade sent to the registry
C9_LastIssued == issued[Len(issued)].stage

C9_LastAnswer ==
    LET e == CHOOSE x \in DOMAIN stage_log : stage_log[x].stage = C9_LastIssued
    IN  stage_log[e].n_raw

\* C9: when no stage gives a qualified candidate the row has Found = false,
\* five empty slots, and Raw_Candidates_Count is the number of candidates the
\* registry returned to the last query sent, the predecessor query included
C9_MissCountsLastQuery ==
    (mpc = "done" /\ stage_log # <<>> /\ matches = <<>>) =>
        /\ result.Found = FALSE
        /\ \A i \in 1..5 : result.Match[i] = EmptySlot
        /\ result.Raw_Candidates_Count = IF issued = <<>> THEN 0 ELSE C9_LastAnswer

\* the part of C9 that leaves the count aside
C9_MissRowIsEmpty ==
    (mpc = "done" /\ stage_log # <<>> /\ matches = <<>>) =>
        /\ result.Found = FALSE
        /\ \A i \in 1..5 : result.Match[i] = EmptySlot
        /\ result.Lender_Name_Input = row.original

(***************************************************************************)
(* Inputs of the runs: the input file, the checkpoint file an earlier run  *)
(* left, and what the collaborator may answer to a batch                   *)
(***************************************************************************)
MaxInput == 3
MaxCheckpoint == 1
MaxItems == 1

RunNames == { <<"A","B">>, <<"C","D">>, <<"G">> }

\* every list of at most n members of S
RECURSIVE Lists(_, _)
Lists(S, n) ==
    IF n = 0 THEN { <<>> }
    ELSE LET prev == Lists(S, n - 1) IN
         prev \cup { Append(q, x) : q \in { y \in prev : Len(y) = n - 1 }, x \in S }

Distinct(q) == \A i, j \in DOMAIN q : i # j => q[i] # q[j]

\* the items of a parsed response: any name may be echoed, or none
NamedItems == { [original |-> n, search_core_name |-> n] : n \in RunNames }

Items == NamedItems \cup { [original |-> None, search_core_name |-> None] }

Answers == Lists(Items, MaxItems)

\* what a worker may get from the collaborator: a list of items, or a
\* response that does not parse
Replies ==
    { [parsed |-> TRUE, items |-> a] : a \in Answers }
    \cup { [parsed |-> FALSE, items |-> <<>>] }

\* Lender_Name.unique().tolist() for the normalizer, the rows of the
\* normalizer's output for the matcher
InputFiles(s) ==
    IF s = "normalizer"
    THEN { q \in Lists(RunNames, MaxInput) : Distinct(q) }
    ELSE Lists(RunNames, MaxInput)

CheckpointFiles(s) ==
    IF s = "normalizer"
    THEN Lists({ final_row(it) : it \in NamedItems }, MaxCheckpoint)
    ELSE Lists({ [Lender_Name_Input |-> n, Found |-> f] : n \in RunNames, f \in BOOLEAN },
               MaxCheckpoint)

\* the run's surroundings: with or without its input file and, for the
\* normalizer, with or without ARK_API_KEY
RunEnvs(s) ==
    { [input_exists |-> i, credential |-> c] :
        i \in BOOLEAN, c \in (IF s = "normalizer" THEN BOOLEAN ELSE { TRUE }) }

InitRun ==
    /\ run_stage \in {"normalizer", "matcher"}
    /\ rpc = "start"
    /\ run_env \in RunEnvs(run_stage)
    /\ input_names \in (IF run_env.input_exists THEN InputFiles(run_stage) ELSE { <<>> })
    /\ output_file \in CheckpointFiles(run_stage)
    /\ output_at_start = output_file
    /\ submitted = <<>>
    /\ futures = {}
    /\ results_buffer = <<>>
    /\ requested = {}
    /\ run_no = "first"
    /\ results = <<>>
    /\ header_at = IF output_file = <<>> THEN {} ELSE {0}
    /\ returned = <<>>
    /\ dispatch_log = <<>>
    /\ FilterIdle
    /\ QueryIdle
    /\ MatchIdle
    /\ IdIdle
    /\ MergeIdle
    /\ ScoreIdle
    /\ ParseIdle

NextRun ==
    \/ NormalizerStart
    \/ process_batch(Replies)
    \/ NormalizerBatchDone
    \/ MatcherStart
    \/ MatcherWorkerDone
    \/ MatcherRowDone
    \/ Rerun

SpecRun == InitRun /\ [][NextRun]_vars

(***************************************************************************)
(* Resuming from a checkpoint                                              *)
(***************************************************************************)
C10_KeysAtStart == processed(output_at_start)

C10_NoRequest == \A n \in requested : str(n) \notin C10_KeysAtStart

C10_OldRowsKept ==
    /\ Len(output_file) >= Len(output_at_start)
    /\ SubSeq(output_file, 1, Len(output_at_start)) = output_at_start

C10_NoNewRow ==
    \A i \in DOMAIN output_file :
        i > Len(output_at_start) => row_key(output_file[i]) \notin C10_KeysAtStart

\* C10: for the normalizer and the matcher, a key the checkpoint file holds
\* when the run starts is not requested again, gets no new row, and the rows
\* the file held stay as they were, whatever the collaborator answers
C10_ResumeLeavesCheckpointedKeys ==
    /\ C10_NoRequest
    /\ C10_NoNewRow
    /\ C10_OldRowsKept

\* the same for the matcher alone
C10_MatcherResumeLeavesCheckpointedKeys ==
    run_stage = "matcher" => (C10_NoRequest /\ C10_NoNewRow /\ C10_OldRowsKept)

\* what the normalizer keeps of it
C10_NormalizerNoRequestOldRowsKept ==
    run_stage = "normalizer" => (C10_NoRequest /\ C10_OldRowsKept)

(***************************************************************************)
(* One row per key in a stage's output                                     *)
(***************************************************************************)
C11_UniqueKeys(file) ==
    \A i, j \in DOMAIN file : i # j => row_key(file[i]) # row_key(file[j])

\* the input names the stage has to process (the normalizer leaves out the
\* names of one character)
C11_InputKeys ==
    { str(input_names[i]) : i \in { k \in DOMAIN input_names :
          run_stage = "matcher" \/ Len(str(input_names[k])) > 1 } }

\* C11: when a run has ended on a checkpoint file without a repeated key, the
\* output holds every key once: no key is repeated and no input name is
\* missing
C11_EveryKeyExactlyOnce ==
    (rpc = "done" /\ input_names # <<>> /\ C11_UniqueKeys(output_at_start)) =>
        /\ C11_UniqueKeys(output_file)
        /\ \A k \in C11_InputKeys : k \in processed(output_file)

\* the two halves of C11, each on its own
C11_NoKeyRepeated ==
    (rpc = "done" /\ input_names # <<>> /\ C11_UniqueKeys(output_at_start)) =>
        C11_UniqueKeys(output_file)

C11_NoNameMissing ==
    (rpc = "done" /\ input_names # <<>> /\ run_no = "next") =>
        \A k \in C11_InputKeys : k \in processed(output_file)

(***************************************************************************)
(* Inputs of clean_id: the cells an identifier column may hold             *)
(***************************************************************************)
MaxIdPieces == 3

IdPieces ==
    { <<"1","2">>, <<"7">>, <<"0">>, <<".","0">>, <<".">>, <<" ">>, <<"-">>,
      <<"n","a","n">>, <<"N","o","n","e">>, <<"n","o","n","e">>, <<"x">> }

IdValues == Joined(IdPieces, { <<>> }, MaxIdPieces) \cup { NaN, None, <<>> }

InitId ==
    /\ ipc = "value"
    /\ id_val \in IdValues
    /\ id_clean = None
    /\ id_again = None
    /\ FilterIdle
    /\ QueryIdle
    /\ MatchIdle
    /\ RunIdle
    /\ MergeIdle
    /\ ScoreIdle
    /\ ParseIdle

NextId == CleanId

SpecId == InitId /\ [][NextId]_vars

(***************************************************************************)
(* Inputs of the merger: a master mapping, the loan records and the        *)
(* statement records of one year                                           *)
(***************************************************************************)
MaxMapRows == 1
MaxLoans == 2
MaxStatements == 1

LoanNames == { <<"L","1">>, <<"L","2">> }

\* the ranked identifiers of one mapping row, as the file holds them
RssdTuples ==
    { <<NaN, NaN, NaN, NaN, NaN>>,
      <<<<"7",".","0">>, NaN, NaN, NaN, NaN>>,
      <<<<"8">>, NaN, NaN, NaN, NaN>>,
      <<<<"7",".","0">>, <<"8">>, NaN, NaN, <<"9">>>>,
      <<<<"7">>, <<"7",".","0">>, <<"8">>, NaN, NaN>>,
      <<NaN, <<"7",".","0">>, <<"8">>, <<"9">>, NaN>>,
      <<<<"n","a","n">>, <<"7">>, NaN, NaN, NaN>> }

MapRows == { [Lender_Name_Input |-> n, RSSD |-> t] : n \in LoanNames, t \in RssdTuples }

LoanRows ==
    { [Lender_Name |-> n, Lender_Id |-> <<"5","0",".","0">>, year |-> p[1], quarter |-> p[2]] :
        n \in LoanNames,
        p \in { <<Num(2020), NaN>>, <<Num(2020), Num(1)>>, <<Num(2021), Num(1)>> } }

StatementRows ==
    { [rssdid |-> i, name |-> <<"B">>, year |-> Num(2020), quarter |-> q] :
        i \in { <<"7">>, <<"8",".","0">>, NaN }, q \in { NaN, Num(1), <<"Q","1">> } }

call_2020 == <<"c","a","l","l","_","2","0","2","0",".","c","s","v">>

CallFiles ==
    { [filename |-> call_2020, has_cols |-> TRUE,
       has_year |-> y, has_quarter |-> q, rows |-> r] :
        y \in BOOLEAN, q \in BOOLEAN, r \in Lists(StatementRows, MaxStatements) }

DsFiles ==
    { [found |-> TRUE, rows |-> r] : r \in Lists(LoanRows, MaxLoans) }
    \cup { [found |-> FALSE, rows |-> <<>>] }

\* a loan-record file as the directory holds it: with or without the four
\* columns the merger reads
DsEntries ==
    { [found |-> d.found, has_cols |-> d.found, rows |-> d.rows] : d \in DsFiles }
    \cup { [found |-> TRUE, has_cols |-> FALSE, rows |-> <<>>] }

Years == { 2020, 2021 }

\* runs on several call-report files: their names, with a year or without,
\* two of them with the same year; each holds one statement record
MaxCallFiles == 2

CallFileNames ==
    { call_2020,
      <<"2","0","2","0","_","c","a","l","l","_","b",".","c","s","v">>,
      <<"c","a","l","l","2","0","2","1",".","c","s","v">>,
      <<"c","a","l","l",".","c","s","v">> }

SmallCallFiles ==
    { [filename |-> f, has_cols |-> c, has_year |-> FALSE, has_quarter |-> TRUE,
       rows |-> << [rssdid |-> <<"7">>, name |-> n, year |-> NaN, quarter |-> Num(1)] >>] :
        f \in CallFileNames, c \in BOOLEAN, n \in { <<"B">>, <<"C">> } }

SmallMaps ==
    { <<>>,
      << [Lender_Name_Input |-> <<"L","1">>,
          RSSD |-> <<<<"7",".","0">>, NaN, NaN, NaN, NaN>>] >> }

SmallDsEntry(year) ==
    { no_ds_file,
      [found |-> TRUE, has_cols |-> FALSE, rows |-> <<>>],
      [found |-> TRUE, has_cols |-> TRUE,
       rows |-> << [Lender_Name |-> <<"L","1">>, Lender_Id |-> <<"5","0">>,
                    year |-> Num(year), quarter |-> Num(1)] >>] }

\* the output directory before the run: empty, or with a panel of 2020 that
\* an earlier run wrote
old_panel ==
    << [rec |-> 1, year |-> 2020, quarter |-> 4, name |-> <<"O","L","D">>,
        rssdid |-> <<"9">>, Lender_Name |-> None, Lender_Id |-> None] >>

OutputDirs == { <<>>, (2020 :> old_panel) }

\* one call-report file of 2020 with all that a master mapping, a loan-record
\* file and a statement record can hold
InitOneFile ==
    /\ map_exists = TRUE
    /\ master_map \in Lists(MapRows, MaxMapRows)
    /\ \E f \in CallFiles : call_files = <<f>>
    /\ \E e \in DsEntries : ds_files = (2020 :> e)
    /\ outputs = <<>>

\* several call-report files, each with one statement record, with or without
\* the mapping file
InitSeveralFiles ==
    /\ map_exists \in BOOLEAN
    /\ master_map \in SmallMaps
    /\ call_files \in Lists(SmallCallFiles, MaxCallFiles)
    /\ ds_files \in [Years -> UNION { SmallDsEntry(y) : y \in Years }]
    /\ \A y \in Years : ds_files[y] \in SmallDsEntry(y)
    /\ outputs \in OutputDirs
    /\ ~map_exists => (master_map = <<>> /\ \A y \in Years : ds_files[y] = no_ds_file)

InitMerge ==
    /\ gpc = "load"
    /\ InitOneFile \/ InitSeveralFiles
    /\ gnext = 1
    /\ ds_file = [found |-> FALSE, rows |-> <<>>]
    /\ call_file = no_call_file
    /\ df_map = <<>>
    /\ df_lookup = <<>>
    /\ df_output = <<>>
    /\ FilterIdle
    /\ QueryIdle
    /\ MatchIdle
    /\ RunIdle
    /\ IdIdle
    /\ ScoreIdle
    /\ ParseIdle

NextMerge ==
    \/ LoadMasterMap
    \/ MergeCallFile

SpecMerge == InitMerge /\ [][NextMerge]_vars

(***************************************************************************)
(* C12: the fan-out of one mapping row into reverse-lookup rows            *)
(***************************************************************************)
C12_NonNull(r) == { i \in 1..MatchSlots : clean_id(r.RSSD[i]) # None }

C12_OnlyRowOfItsName(m) ==
    \A k \in DOMAIN master_map :
        master_map[k].Lender_Name_Input = master_map[m].Lender_Name_Input => k = m

C12_LookupRowsOf(loan) == { t \in DOMAIN df_lookup : df_lookup[t].loan = loan }

C12_FansOut(m, loan) ==
    /\ Cardinality(C12_LookupRowsOf(loan)) = Cardinality(C12_NonNull(master_map[m]))
    /\ \A i \in C12_NonNull(master_map[m]) :
          \E t \in C12_LookupRowsOf(loan) :
              /\ df_lookup[t].slot = i
              /\ df_lookup[t].Target_RSSD = clean_id(master_map[m].RSSD[i])
              /\ df_lookup[t].Lender_Name = master_map[m].Lender_Name_Input

C12_Applies(m, loan) ==
    /\ gpc = "done"
    /\ ds_file.found
    /\ m \in DOMAIN master_map
    /\ loan \in DOMAIN ds_file.rows
    /\ C12_OnlyRowOfItsName(m)
    /\ Cardinality(C12_NonNull(master_map[m])) = 3
    /\ ds_file.rows[loan].Lender_Name = master_map[m].Lender_Name_Input

\* C12: a mapping row with exactly 3 non-null ranked identifiers, in any of the
\* slots Match1..Match5, yields exactly 3 reverse-lookup rows for every loan
\* record of its name, one per non-null identifier.
C12_ThreeIdsGiveThreeLookupRows ==
    \A m \in DOMAIN master_map : \A loan \in DOMAIN ds_file.rows :
        C12_Applies(m, loan) => C12_FansOut(m, loan)

\* C12, the rows whose first slot holds an identifier: they fan out into 3
\* rows, a repeated identifier included.
C12_ThreeIdsFromFirstSlotGiveThreeLookupRows ==
    \A m \in DOMAIN master_map : \A loan \in DOMAIN ds_file.rows :
        (C12_Applies(m, loan) /\ 1 \in C12_NonNull(master_map[m])) => C12_FansOut(m, loan)

\* C12: a mapping row with 3 identifiers, none of them in the first slot,
\* and a loan record of its name have been merged.
C12_FirstSlotEmptyMerged ==
    \E m \in DOMAIN master_map : \E loan \in DOMAIN ds_file.rows :
        C12_Applies(m, loan) /\ 1 \notin C12_NonNull(master_map[m])

(***************************************************************************)
(* C13: the statement records in the merged panel                          *)
(***************************************************************************)
C13_Statements == read_call(call_file, file_year)

C13_Matching(i) ==
    { t \in DOMAIN df_lookup : joins(C13_Statements[i], df_lookup[t]) }

C13_RowsOf(i) == { o \in DOMAIN df_output : df_output[o].rec = i }

C13_Count(i) ==
    IF C13_Matching(i) = {} THEN 1 ELSE Cardinality(C13_Matching(i))

C13_Annotations(i) ==
    IF C13_Matching(i) = {} THEN { <<None, None>> }
    ELSE { <<df_lookup[t].Lender_Name, df_lookup[t].Lender_Id>> : t \in C13_Matching(i) }

\* C13: in the written panel every statement record of the file has
\* max(1, number of matching lookup rows) rows, one per matching lookup row
\* and one with empty loan-side name and identifier when none matches; every
\* row of the panel carries the fields of a statement record of the file.
C13_OneRowPerMatchOrOneEmptyRow ==
    gpc = "done" =>
        /\ \A i \in DOMAIN C13_Statements :
              /\ Cardinality(C13_RowsOf(i)) = C13_Count(i)
              /\ { <<df_output[o].Lender_Name, df_output[o].Lender_Id>> : o \in C13_RowsOf(i) }
                     = C13_Annotations(i)
              /\ C13_Matching(i) = {} =>
                     \A o \in C13_RowsOf(i) :
                         df_output[o].Lender_Name = None /\ df_output[o].Lender_Id = None
        /\ \A o \in DOMAIN df_output :
              /\ df_output[o].rec \in DOMAIN C13_Statements
              /\ LET c == C13_Statements[df_output[o].rec]
                 IN  /\ df_output[o].rssdid = c.rssdid
                     /\ df_output[o].name = c.name
                     /\ df_output[o].year = c.year
                     /\ df_output[o].quarter = c.quarter

\* C13: a statement record matched by several lookup rows has been written,
\* once per lookup row.
C13_Witness ==
    /\ gpc = "done"
    /\ \E i \in DOMAIN C13_Statements :
          Cardinality(C13_Matching(i)) >= 2 /\ Cardinality(C13_RowsOf(i)) >= 2

\* C13: a statement record that no row of a non-empty lookup matches has been
\* written once, without a loan-side name.
C13_WitnessUnmatched ==
    /\ gpc = "done"
    /\ df_lookup # <<>>
    /\ \E i \in DOMAIN C13_Statements :
          /\ C13_Matching(i) = {}
          /\ \E o \in C13_RowsOf(i) : df_output[o].Lender_Name = None

(***************************************************************************)
(* Inputs of the scoring loop: the measures of up to MaxScored candidates, *)
(* the similarities being fractions of denominators up to MaxScoreDen      *)
(***************************************************************************)
MaxScoreDen == 3
MaxScored == 2

Similarities == { <<k, d>> : k \in 0..MaxScoreDen, d \in 1..MaxScoreDen } \cap
                { x \in (0..MaxScoreDen) \X (1..MaxScoreDen) : x[1] <= x[2] }

Measures ==
    { [char_sim |-> c, token_sim |-> t, is_boundary_safe |-> b] :
        c \in Similarities, t \in Similarities, b \in BOOLEAN }

\* the certificate numbers and the assets of the candidates
Certs == 1..MaxScored
Assets == { 0, 1 }

InitScore ==
    /\ spc = "score"
    /\ \E ms \in Lists(Measures, MaxScored) \ { <<>> } :
       \E certs \in [DOMAIN ms -> Certs] : \E assets \in [DOMAIN ms -> Assets] :
          sc_cands = [i \in DOMAIN ms |->
                         [CERT |-> certs[i], calc_asset |-> assets[i]] @@ ms[i]]
    /\ sc_scores = <<>>
    /\ sc_top = <<>>
    /\ FilterIdle
    /\ QueryIdle
    /\ MatchIdle
    /\ RunIdle
    /\ IdIdle
    /\ MergeIdle
    /\ ParseIdle

NextScore == ScoreCandidate \/ SelectTop

SpecScore == InitScore /\ [][NextScore]_vars

(***************************************************************************)
(* C14: the composite score and the token similarity                       *)
(***************************************************************************)
C14_Comparable(i, j) ==
    /\ RatEq(sc_cands[i].char_sim, sc_cands[j].char_sim)
    /\ sc_cands[i].is_boundary_safe
    /\ sc_cands[j].is_boundary_safe
    /\ RatGt(sc_cands[i].token_sim, sc_cands[j].token_sim)

\* C14: of two scored candidates with the same character similarity and a
\* safe boundary, the one with the higher token similarity has no lower
\* composite score.
C14_MonotonicInTokenSimilarity ==
    \A i \in DOMAIN sc_scores : \A j \in DOMAIN sc_scores :
        C14_Comparable(i, j) => RatGe(sc_scores[i], sc_scores[j])

\* C14: two candidates with the same character similarity have been scored,
\* one below and one from a token similarity of one half, and the scores
\* differ.
C14_Witness ==
    \E i \in DOMAIN sc_scores : \E j \in DOMAIN sc_scores :
        /\ C14_Comparable(i, j)
        /\ RatLt(sc_cands[j].token_sim, <<1, 2>>)
        /\ RatGe(sc_cands[i].token_sim, <<1, 2>>)
        /\ RatGt(sc_scores[i], sc_scores[j])

(***************************************************************************)
(* C15: the value of the composite score                                   *)
(***************************************************************************)
C15_Halved(score, char_sim) == score[1] * char_sim[2] * 2 = char_sim[1] * score[2]

\* C15: the composite score of every scored candidate is 0 when the boundary
\* is not safe, else half the character similarity when the token similarity
\* is below one half, else the character similarity (one half itself is not
\* penalised); it lies in [0, 1].
C15_CompositeIsPenalisedCharSimilarity ==
    \A i \in DOMAIN sc_scores :
        LET cand == sc_cands[i]
            score == sc_scores[i]
        IN  /\ ~cand.is_boundary_safe => RatEq(score, <<0, 1>>)
            /\ (cand.is_boundary_safe /\ RatLt(cand.token_sim, <<1, 2>>))
                   => C15_Halved(score, cand.char_sim)
            /\ (cand.is_boundary_safe /\ RatGe(cand.token_sim, <<1, 2>>))
                   => RatEq(score, cand.char_sim)
            /\ RatGe(score, <<0, 1>>)
            /\ RatGe(<<1, 1>>, score)

\* C15: a candidate with a safe boundary, a positive character similarity and
\* a token similarity of exactly one half has been scored, unpenalised.
C15_Witness ==
    \E i \in DOMAIN sc_scores :
        /\ sc_cands[i].is_boundary_safe
        /\ RatEq(sc_cands[i].token_sim, <<1, 2>>)
        /\ RatGt(sc_cands[i].char_sim, <<0, 1>>)
        /\ RatEq(sc_scores[i], sc_cands[i].char_sim)

\* C15: a candidate with a positive character similarity and a full token
\* similarity has been scored 0 for its boundary.
C15_WitnessUnsafe ==
    \E i \in DOMAIN sc_scores :
        /\ ~sc_cands[i].is_boundary_safe
        /\ RatEq(sc_cands[i].token_sim, <<1, 1>>)
        /\ RatGt(sc_cands[i].char_sim, <<0, 1>>)
        /\ RatEq(sc_scores[i], <<0, 1>>)

(***************************************************************************)
(* C16: which loan-side names annotate a statement record                  *)
(***************************************************************************)
C16_Annotated(i, L) ==
    \E o \in DOMAIN df_output : df_output[o].rec = i /\ df_output[o].Lender_Name = L

C16_HasIdentifier(m, id) ==
    \E slot \in 1..MatchSlots :
        clean_id(master_map[m].RSSD[slot]) # None /\ clean_id(master_map[m].RSSD[slot]) = id

C16_SamePeriod(c, loan) ==
    /\ to_int(ds_file.rows[loan].year) = c.year
    /\ to_int(ds_file.rows[loan].quarter) = c.quarter

C16_Expected(i, L, mapping) ==
    LET c == read_call(call_file, file_year)[i] IN
    /\ ds_file.found
    /\ \E loan \in DOMAIN ds_file.rows :
          ds_file.rows[loan].Lender_Name = L /\ C16_SamePeriod(c, loan)
    /\ \E m \in mapping :
          master_map[m].Lender_Name_Input = L /\ C16_HasIdentifier(m, c.rssdid)

C16_FirstSlotFilled == { m \in DOMAIN master_map : clean_id(master_map[m].RSSD[1]) # None }

\* C16: a statement record is annotated with the loan-side name L if and only
\* if a loan record of L has its year and its quarter (0 standing for a
\* missing or unparsable quarter) and one of the ranked identifiers of L is
\* its identifier, both normalized.
C16_AnnotatedIffPeriodAndIdentifier ==
    gpc = "done" =>
        \A i \in DOMAIN call_file.rows : \A L \in LoanNames :
            C16_Annotated(i, L) <=> C16_Expected(i, L, DOMAIN master_map)

\* C16, one direction: an annotation has a loan record of the period and a
\* ranked identifier behind it.
C16_AnnotatedOnlyIfPeriodAndIdentifier ==
    gpc = "done" =>
        \A i \in DOMAIN call_file.rows : \A L \in LoanNames :
            C16_Annotated(i, L) => C16_Expected(i, L, DOMAIN master_map)

\* C16, on the mapping rows whose first slot holds an identifier: the
\* equivalence holds, the records without a quarter included.
C16_AnnotatedIffAmongFirstSlotFilled ==
    gpc = "done" =>
        \A i \in DOMAIN call_file.rows : \A L \in LoanNames :
            C16_Annotated(i, L) <=> C16_Expected(i, L, C16_FirstSlotFilled)

\* C16: a statement record and a loan record that both lack a quarter have
\* been joined on identifier and year.
C16_QuarterlessJoined ==
    /\ gpc = "done"
    /\ \E i \in DOMAIN call_file.rows : \E loan \in DOMAIN ds_file.rows :
          /\ ~call_file.has_quarter \/ isna(call_file.rows[i].quarter)
          /\ isna(ds_file.rows[loan].quarter)
          /\ C16_Annotated(i, ds_file.rows[loan].Lender_Name)

(***************************************************************************)
(* C17: clean_id as a canonical form                                       *)
(***************************************************************************)
C17_Digits(s) == s # <<>> /\ \A i \in DOMAIN s : IsDigit(s[i])

C17_IsNullWord(s) == lower(s) \in { <<"n","a","n">>, <<"n","o","n","e">> }

\* C17: clean_id applied to its own result gives that result again.
C17_Idempotent ==
    ipc = "done" => id_again = id_clean

\* C17: an integer written with a trailing ".0" has the canonical form of the
\* integer without it; an empty value, NaN and "nan"/"none" in any case give
\* null; a value float() rejects gives its trimmed string.
C17_CanonicalForms ==
    ipc = "done" =>
        /\ (isna(id_val) \/ id_val = None) => id_clean = None
        /\ (~isna(id_val) /\ id_val # None) =>
              /\ strip(id_val) = <<>> => id_clean = None
              /\ C17_IsNullWord(id_val) => id_clean = None
              /\ C17_Digits(id_val) =>
                    /\ id_clean = clean_id(id_val \o <<".", "0">>)
                    /\ C17_Digits(id_clean)
              /\ (strip(id_val) # <<>> /\ ~C17_IsNullWord(id_val) /\ ~float_accepts(id_val))
                    => id_clean = strip(id_val)

\* C17: a value that is "nan" or "none" between blanks has been cleaned.
C17_PaddedNullWordCleaned ==
    /\ ipc = "done"
    /\ ~isna(id_val) /\ id_val # None
    /\ id_val # strip(id_val)
    /\ C17_IsNullWord(strip(id_val))

(***************************************************************************)
(* C18: a normalizer batch whose response does not parse                   *)
(***************************************************************************)
C18_Failed(e) == dispatch_log[e].run = "first" /\ ~dispatch_log[e].parsed

C18_DispatchedInNextRun(n) ==
    \E e \in DOMAIN dispatch_log :
        dispatch_log[e].run = "next" /\ n \in Range(dispatch_log[e].item)

C18_Persisted(n) == str(n) \in processed(output_at_start)

C18_NoRowsOncePerRun ==
    /\ \A e \in DOMAIN dispatch_log :
          ~dispatch_log[e].parsed => dispatch_log[e].rows = <<>>
    /\ \A e \in DOMAIN dispatch_log : \A f \in DOMAIN dispatch_log :
          (e # f /\ dispatch_log[e].run = dispatch_log[f].run)
              => Range(dispatch_log[e].item) \cap Range(dispatch_log[f].item) = {}

\* C18: a batch whose response does not parse hands no row to the checkpoint,
\* no name is dispatched twice within a run, and once the next run has ended
\* every name of such a batch has been dispatched by it.
C18_FailedBatchRedispatchedByNextRun ==
    run_stage = "normalizer" =>
        /\ C18_NoRowsOncePerRun
        /\ (run_no = "next" /\ rpc = "done") =>
              \A e \in DOMAIN dispatch_log : \A n \in Range(dispatch_log[e].item) :
                  C18_Failed(e) => C18_DispatchedInNextRun(n)

\* C18, for the names the checkpoint does not hold when the next run starts:
\* they are dispatched by the next run, and the first two parts hold.
C18_FailedBatchRedispatchedUnlessPersisted ==
    run_stage = "normalizer" =>
        /\ C18_NoRowsOncePerRun
        /\ (run_no = "next" /\ rpc = "done") =>
              \A e \in DOMAIN dispatch_log : \A n \in Range(dispatch_log[e].item) :
                  (C18_Failed(e) /\ ~C18_Persisted(n)) => C18_DispatchedInNextRun(n)

\* C18: the next run has ended after dispatching a name of a batch whose
\* response did not parse in the first run.
C18_FailedNameRedispatched ==
    /\ run_stage = "normalizer"
    /\ run_no = "next"
    /\ rpc = "done"
    /\ \E e \in DOMAIN dispatch_log : \E n \in Range(dispatch_log[e].item) :
          C18_Failed(e) /\ ~C18_Persisted(n) /\ C18_DispatchedInNextRun(n)

(***************************************************************************)
(* C19: who writes the checkpoint file, and what is written                *)
(***************************************************************************)
C19_Count(s, x) == Cardinality({ i \in DOMAIN s : s[i] = x })

\* the rows the run has added to the file it started from
C19_Appended == SubSeq(output_file, Len(output_at_start) + 1, Len(output_file))

\* the rows the workers of the run have returned, in the order of return
C19_Returned ==
    concat([e \in DOMAIN dispatch_log |->
               IF dispatch_log[e].run = run_no THEN dispatch_log[e].rows ELSE <<>>])

C19_NothingLostOrRepeated ==
    /\ SubSeq(output_file, 1, Len(output_at_start)) = output_at_start
    /\ \A x \in Range(C19_Appended \o results_buffer) :
          C19_Count(C19_Appended \o results_buffer, x) <= C19_Count(C19_Returned, x)
    /\ rpc = "done" =>
          /\ results_buffer = <<>>
          /\ \A x \in Range(C19_Returned) :
                C19_Count(C19_Appended, x) = C19_Count(C19_Returned, x)

C19_HeaderOnCreation ==
    /\ header_at \subseteq {0}
    /\ output_file # <<>> => header_at = {0}

C19_WrittenByCollector ==
    (output_file' # output_file \/ results_buffer' # results_buffer \/ header_at' # header_at)
        => /\ rpc = "collect"
           /\ \E b \in completed : futures' = futures \ {b} /\ results' = without(results, b)

\* C19: in every interleaving the file, the buffer and the header change only
\* in a step of the loop that takes in a completed future; every row a worker
\* has returned is in the file exactly once when the run has ended, none
\* twice before; the header line is at the top of the file and nowhere else.
C19_OrchestratorAloneWritesEachResultOnce ==
    /\ [](C19_NothingLostOrRepeated /\ C19_HeaderOnCreation)
    /\ [][C19_WrittenByCollector]_vars

\* C19: a run whose workers returned in another order than submitted has
\* ended on a file that existed before it, after a flush at the threshold and
\* a flush of the rest.
C19_Witness ==
    /\ rpc = "done"
    /\ output_at_start # <<>>
    /\ Len(C19_Appended) > MatcherFlushSize
    /\ Len(C19_Appended) > BATCH_SIZE_QUERY * 2
    /\ C19_Appended # C19_Returned
    /\ header_at = {0}

(***************************************************************************)
(* C20: a matcher item that fails                                          *)
(***************************************************************************)
C20_RowsOf(n) ==
    { i \in DOMAIN C19_Appended : C19_Appended[i].Lender_Name_Input = n }

C20_Raised(n) ==
    \E e \in DOMAIN dispatch_log :
        /\ dispatch_log[e].run = run_no
        /\ dispatch_log[e].item = <<n>>
        /\ ~dispatch_log[e].parsed

\* C20: when a matcher run has ended, every submitted item has its result row
\* in the file, and an item whose process_row raised has a Found = false row.
C20_FailedItemIsRecordedAsMiss ==
    (run_stage = "matcher" /\ rpc = "done") =>
        \A i \in DOMAIN submitted :
            /\ C20_RowsOf(submitted[i]) # {}
            /\ C20_Raised(submitted[i]) =>
                  \E r \in C20_RowsOf(submitted[i]) : ~C19_Appended[r].Found

\* C20: an item whose process_row raised takes no row from its siblings: when
\* the run has ended, every item whose process_row returned has its row in
\* the file.
C20_SiblingsGetTheirRows ==
    (run_stage = "matcher" /\ rpc = "done") =>
        \A e \in DOMAIN dispatch_log :
            (dispatch_log[e].run = run_no /\ dispatch_log[e].parsed)
                => \A k \in DOMAIN dispatch_log[e].rows :
                       \E r \in DOMAIN C19_Appended : C19_Appended[r] = dispatch_log[e].rows[k]

\* C20: a matcher run has ended in which the process_row of one item raised
\* and that of another returned.
C20_RaisedBesideReturned ==
    /\ run_stage = "matcher"
    /\ rpc = "done"
    /\ \E e \in DOMAIN dispatch_log : \E f \in DOMAIN dispatch_log :
          /\ dispatch_log[e].run = run_no /\ ~dispatch_log[e].parsed
          /\ dispatch_log[f].run = run_no /\ dispatch_log[f].parsed

(***************************************************************************)
(* The three stages that keep files: a run of the normalizer or of the     *)
(* matcher, or a run of the merger                                         *)
(***************************************************************************)
InitStages == InitRun \/ InitMerge

NextStages == NextRun \/ NextMerge

SpecStages == InitStages /\ [][NextStages]_vars

(***************************************************************************)
(* C21: a run that fails outright                                          *)
(***************************************************************************)
C21_CheckpointUntouched ==
    /\ output_file = output_at_start
    /\ results_buffer = <<>>
    /\ header_at = (IF output_file = <<>> THEN {} ELSE {0})

C21_FailedRunLeavesFiles ==
    /\ rpc = "failed" =>
          /\ C21_CheckpointUntouched
          /\ futures = {}
          /\ \A e \in DOMAIN dispatch_log : dispatch_log[e].run # run_no
    /\ ~run_env.input_exists => (rpc \in {"start", "failed"} /\ C21_CheckpointUntouched)
    /\ ~run_env.credential => C21_CheckpointUntouched
    /\ gpc = "failed" => (gnext = 1 /\ df_output = <<>>)
    /\ ~map_exists => gpc \in {"load", "failed"}

C21_FailingStepWritesNothing ==
    /\ (rpc' = "failed" \/ rpc = "failed") => (output_file' = output_file /\ header_at' = header_at)
    /\ (gpc = "load" \/ gpc' = "failed" \/ gpc = "failed") => outputs' = outputs

\* C21: a run of the normalizer or the matcher without its input file, a run
\* of the normalizer without its credential and a run of the merger without
\* the master mapping end with the checkpoint file and the output files as
\* they found them: none created, none appended to, none overwritten.
C21_OutrightFailureModifiesNoFile ==
    /\ []C21_FailedRunLeavesFiles
    /\ [][C21_FailingStepWritesNothing]_vars

\* C21: a normalizer run without credential has sent its requests, all have
\* failed, and it has ended on the checkpoint file it found.
C21_Witness ==
    /\ run_stage = "normalizer"
    /\ ~run_env.credential
    /\ rpc = "done"
    /\ dispatch_log # <<>>
    /\ output_file # <<>>

\* C21: a normalizer run has ended at init_client, beside a checkpoint file.
C21_WitnessClientRaised ==
    /\ run_stage = "normalizer"
    /\ run_env.input_exists
    /\ rpc = "failed"
    /\ output_file # <<>>

\* C21: a matcher run without its input file has ended.
C21_WitnessInputMissing ==
    /\ run_stage = "matcher"
    /\ ~run_env.input_exists
    /\ rpc = "failed"

\* C21: a merger run without the master mapping has ended beside a panel
\* that an earlier run wrote.
C21_WitnessMapMissing ==
    /\ ~map_exists
    /\ gpc = "failed"
    /\ outputs # <<>>

(***************************************************************************)
(* C22: source files that lack a required column                           *)
(***************************************************************************)
C22_LacksColumns(entry) == entry.found /\ ~entry.has_cols

C22_Unannotated(panel) ==
    \A o \in DOMAIN panel : panel[o].Lender_Name = None /\ panel[o].Lender_Id = None

C22_State ==
    /\ \A y \in DOMAIN outputs :
          C22_LacksColumns(ds_entry(ds_files, y)) => C22_Unannotated(outputs[y])
    /\ gpc = "done" =>
          /\ gnext = Len(call_files) + 1
          /\ \A k \in DOMAIN call_files :
                ~skipped(call_files[k]) => year_of(call_files[k].filename) \in DOMAIN outputs

C22_Step ==
    gpc = "file" =>
        /\ gnext' = gnext + 1
        /\ ~call_files[gnext].has_cols => outputs' = outputs
        /\ ~skipped(call_files[gnext]) =>
              /\ year_of(call_files[gnext].filename) \in DOMAIN outputs'
              /\ Len(outputs'[year_of(call_files[gnext].filename)])
                     >= Len(call_files[gnext].rows)

\* C22: a call-report file without the identifier or the name column leaves
\* the output directory as it was; the panel of a year whose loan-record file
\* lacks a column has no annotation; in both cases the loop goes on to the
\* next file, and at the end every file with a year and its columns has its
\* panel written.
C22_MissingColumnSkipsThatFileOnly ==
    /\ []C22_State
    /\ [][C22_Step]_vars

\* C22: a run has ended that passed over a first file without its columns
\* and wrote the panel of the second.
C22_Witness ==
    /\ gpc = "done"
    /\ Len(call_files) = 2
    /\ year_of(call_files[1].filename) = 2020
    /\ ~call_files[1].has_cols
    /\ year_of(call_files[2].filename) = 2021
    /\ ~skipped(call_files[2])
    /\ 2020 \notin DOMAIN outputs
    /\ 2021 \in DOMAIN outputs /\ outputs[2021] # <<>>

\* C22: a panel has been written without annotation for a year whose
\* loan-record file lacks a column, from a statement record whose identifier
\* the mapping holds.
C22_WitnessLoanFile ==
    /\ gpc = "done"
    /\ df_map # <<>>
    /\ \E y \in DOMAIN outputs :
          /\ C22_LacksColumns(ds_entry(ds_files, y))
          /\ y = file_year
          /\ outputs[y] = df_output
          /\ df_output # <<>>
          /\ C22_Unannotated(df_output)

(***************************************************************************)
(* Inputs of parse_json: responses of up to MaxRawPieces pieces            *)
(***************************************************************************)
MaxRawPieces == 5

RawPieces ==
    { FenceJson, Fence, LineBreak, Blank, Prose,
      JsonArray, JsonResults, JsonRecord, JsonCutOff }

Responses_raw == Lists(RawPieces, MaxRawPieces) \cup { None }

InitParse ==
    /\ ppc = "raw"
    /\ raw \in Responses_raw
    /\ parsed = not_parsed
    /\ FilterIdle
    /\ QueryIdle
    /\ MatchIdle
    /\ RunIdle
    /\ IdIdle
    /\ MergeIdle
    /\ ScoreIdle

NextParse == ParseJson

SpecParse == InitParse /\ [][NextParse]_vars

(***************************************************************************)
(* C23: the parsing of a response of the language model                    *)
(***************************************************************************)
\* the span from the first to the last piece that begins or ends a bracket
RECURSIVE C23_BracketSpan(_)
C23_BracketSpan(t) ==
    IF t = <<>> THEN <<>>
    ELSE IF ~IsBracketPiece(Head(t)) THEN C23_BracketSpan(Tail(t))
    ELSE IF ~IsBracketPiece(t[Len(t)])
         THEN C23_BracketSpan(SubSeq(t, 1, Len(t) - 1))
    ELSE t

\* a valid JSON array with prose before or after it and nothing else
C23_ArrayInProse ==
    /\ raw # None
    /\ C23_BracketSpan(raw) = << JsonArray >>
    /\ \E i \in DOMAIN raw : raw[i] = Prose
    /\ \A i \in DOMAIN raw : raw[i] \in { Prose, Blank, LineBreak, JsonArray }

\* C23: a response that holds a valid JSON array surrounded by extra prose
\* yields the records of the array once it is parsed.
C23_ArrayInProseYieldsRecords ==
    (ppc = "done" /\ C23_ArrayInProse) => ai_results(parsed) = << the_record >>

\* the pieces of the response that are neither a fence nor white space
C23_Content ==
    SelectSeq(raw, LAMBDA p : ~IsBlankPiece(p) /\ p \notin { FenceJson, Fence })

\* C23: a response yields records only if, fences and white space apart, it
\* is one JSON value, and always if it is one JSON value between white
\* space; a valid array after or before prose is an empty batch.
C23_FencesThenDirectParseOnly ==
    ppc = "done" =>
        /\ parsed.parsed =>
              /\ raw # None
              /\ Len(C23_Content) = 1
              /\ IsJsonValue(C23_Content[1])
              /\ ai_results(parsed) = << the_record >>
        /\ ~parsed.parsed => ai_results(parsed) = <<>>
        /\ C23_ArrayInProse => ~parsed.parsed
        /\ (raw # None /\ Len(strip_pieces(raw)) = 1 /\ IsJsonValue(strip_pieces(raw)[1]))
              => parsed.parsed

\* C23: a fenced array on lines of its own was parsed to its records.
C23_FencedArrayParsed ==
    /\ ppc = "done"
    /\ raw = << FenceJson, LineBreak, JsonArray, LineBreak, Fence >>
    /\ ai_results(parsed) = << the_record >>

\* C23: an array after a word of prose was parsed to an empty batch.
C23_ArrayAfterProseEmpty ==
    /\ ppc = "done"
    /\ raw = << Prose, Blank, JsonArray >>
    /\ ai_results(parsed) = <<>>

(***************************************************************************)
(* C24: the measures of the candidates select_top_matches returns          *)
(***************************************************************************)
\* C24: every candidate in the list select_top_matches returned has a token
\* similarity of at least 0.5, a character similarity of at least 0.6 and a
\* safe boundary, and is one of the candidates given.
C24_ReturnedAreUnpenalisedAndAdmitted ==
    \A r \in DOMAIN sc_top :
        /\ RatGe(sc_top[r].token_sim, <<1, 2>>)
        /\ RatGe(sc_top[r].char_sim, <<3, 5>>)
        /\ sc_top[r].is_boundary_safe
        /\ \E i \in DOMAIN sc_cands : sc_scored[i] = sc_top[r]

\* C24: a penalised candidate with a safe boundary and a character
\* similarity of 1 was scored one half and left out of the list returned,
\* which holds another candidate.
C24_Witness ==
    /\ spc = "done"
    /\ sc_top # <<>>
    /\ \E i \in DOMAIN sc_cands :
          /\ sc_cands[i].is_boundary_safe
          /\ RatEq(sc_cands[i].char_sim, <<1, 1>>)
          /\ RatLt(sc_cands[i].token_sim, <<1, 2>>)
          /\ RatEq(sc_scores[i], <<1, 2>>)
          /\ \A r \in DOMAIN sc_top : sc_top[r] # sc_scored[i]

\* C24: the candidate with the larger asset and a score above 0.75 was put
\* before the candidate that comes first by score.
C24_WitnessPromoted ==
    /\ spc = "done"
    /\ Len(sc_top) = 2
    /\ sc_top[1].calc_asset > sc_top[2].calc_asset
    /\ sc_top[1] = sc_scored[2]

(***************************************************************************)
(* C25: several call-report files of one year                              *)
(***************************************************************************)
\* the panel the pass over a call-report file computes
C25_PanelOf(file) ==
    LET year == year_of(file.filename) IN
    final_panel(read_call(file, year),
                build_lookup(read_ds_file(ds_entry(ds_files, year)), df_map))

\* the files passed so far that were written under the year
C25_WrittenFor(year) ==
    { i \in 1..(gnext - 1) :
        ~skipped(call_files[i]) /\ year_of(call_files[i].filename) = year }

C25_Last(S) == CHOOSE i \in S : \A j \in S : j <= i

\* C25: during and after the loop over the call-report files, the output of
\* a year under which files were written holds exactly the panel of the last
\* of them, whatever the earlier ones and the file found there held, and no
\* output exists under any other name than the year of a file written or
\* found before the run.
C25_OutputIsPanelOfLastFileOfYear ==
    gpc \in { "file", "done" } =>
        /\ \A year \in Years :
              C25_WrittenFor(year) # {} =>
                  /\ year \in DOMAIN outputs
                  /\ outputs[year] = C25_PanelOf(call_files[C25_Last(C25_WrittenFor(year))])
                  /\ \A i \in C25_WrittenFor(year) :
                        \A r \in DOMAIN C25_PanelOf(call_files[i]) :
                            (\E o \in DOMAIN outputs[year] :
                                 outputs[year][o] = C25_PanelOf(call_files[i])[r])
                              => \E k \in DOMAIN outputs[year] :
                                     C25_PanelOf(call_files[C25_Last(C25_WrittenFor(year))])[k]
                                         = C25_PanelOf(call_files[i])[r]
        /\ \A year \in DOMAIN outputs :
              C25_WrittenFor(year) = {} => outputs[year] = old_panel

\* C25: two call-report files of 2020 with different records were written in
\* one run, and the output of 2020 holds the record of the second and not
\* that of the first.
C25_Witness ==
    /\ gpc = "done"
    /\ Len(call_files) = 2
    /\ C25_WrittenFor(2020) = { 1, 2 }
    /\ call_files[1].filename # call_files[2].filename
    /\ C25_PanelOf(call_files[1]) # C25_PanelOf(call_files[2])
    /\ outputs[2020] = C25_PanelOf(call_files[2])
    /\ \A o \in DOMAIN outputs[2020] :
          \A r \in DOMAIN C25_PanelOf(call_files[1]) :
              outputs[2020][o] # C25_PanelOf(call_files[1])[r]

====
